---- MODULE Spec2Model ----
(***************************************************************************)
(* Coordinator / worker delegation protocol over the shared `messages`     *)
(* table: src/moon_agent.py (CoordinatorMoon) and                          *)
(* src/backend/moon_agent_two.py (EnhancedWorkerMoon).                     *)
(*                                                                         *)
(* Texts are sequences of tokens.  The three convention prefixes are       *)
(* tokens of their own, so that startswith() and replace() are modelled by *)
(* what they do: startswith looks at the first token, replace removes      *)
(* every occurrence.                                                       *)
(*                                                                         *)
(* A step of a process is one call to the store (a query or an insert)     *)
(* together with the code of that process that follows it up to its next   *)
(* call to the store.  A call to the language model reads and writes       *)
(* nothing the other processes see, so it is part of the step it occurs    *)
(* in.  Every call to the store can fail, at any time and any number of    *)
(* times.                                                                  *)
(***************************************************************************)
EXTENDS Integers, Sequences, FiniteSets, TLC

\* ------------------------------------------------------------------ bounds
MaxTasks == 2        \* rows sent from the coordinator CLI

\* ------------------------------------------------------------------ texts
WORK_REQUEST == "WORK_REQUEST: "
WORK_COMPLETE == "WORK_COMPLETE: "
TASK_COMPLETE == "TASK_COMPLETE: "

\* str.startswith(prefix)
StartsWith(s, prefix) == Len(s) >= 1 /\ s[1] = prefix

\* str.replace(old, "")
Replace(s, old) == SelectSeq(s, LAMBDA t : t # old)

\* s[:n]
Slice(s, n) == IF Len(s) <= n THEN s ELSE SubSeq(s, 1, n)

\* The task texts typed at the CLI (already stripped, never empty).
TaskTexts ==
    { <<"refactor">>,
      <<WORK_REQUEST, "x">>,
      <<TASK_COMPLETE, "x">> }

\* ------------------------------------------------------------------ state
VARIABLES
    messages,    \* the shared table, in insertion order; a row's id is its index
    c_pc,        \* coordinator: position of poll_for_messages / the workflow
    c_last,      \* coordinator: last_checked
    c_batch,     \* coordinator: rows of the query result not yet iterated
    c_state,     \* coordinator: CoordinatorMoonState
    c_user,      \* coordinator: human_user is set
    c_wf,        \* coordinator: the workflow state threaded through the nodes
    c_back,      \* coordinator: the loop that awaits the running workflow
    cli_pc,      \* coordinator: position of handle_cli_input
    w_pc,        \* worker instance -> position of poll_for_work_requests
    w_last,      \* worker instance -> last_checked
    w_batch,     \* worker instance -> rows of the query result not yet iterated
    w_state,     \* worker instance -> WorkerState
    w_user,      \* worker instance -> human_user is set
    w_wf,        \* worker instance -> workflow state
    c_log,       \* history: message id -> what the coordinator did with it
    w_log,       \* history: worker instance -> message id -> what it did
    a_envelope,  \* adapter client: the envelope built and not yet sent
    a_sent       \* adapter client: the last call of send_envelope and its outcome

vars == << messages, c_pc, c_last, c_batch, c_state, c_user, c_wf, c_back,
           cli_pc, w_pc, w_last, w_batch, w_state, w_user, w_wf, c_log, w_log,
           a_envelope, a_sent >>

coordVars == << c_pc, c_last, c_batch, c_state, c_user, c_wf, c_back, c_log >>
cliVars == << cli_pc >>
workerVars == << w_pc, w_last, w_batch, w_state, w_user, w_wf, w_log >>
adapterVars == << a_envelope, a_sent >>

WorkerIds == {"w1", "w2"}

agent_name == "coordinator"      \* CoordinatorMoon(..., agent_name="coordinator")
worker_name == "worker"          \* EnhancedWorkerMoon(..., agent_name="worker")

\* ------------------------------------------------------------------ store
NoId == 0

\* Time is measured by the insertions into the table: the server stamps the k-th row
\* it inserts with 2k, and a clock read after k insertions gives 2k + 1, a time after
\* the k-th row was stamped and before the next one is.
Now == 2 * Len(messages) + 1

\* The k-th row of the table: id and created are assigned by the insert.
\* `by` is history only: the instance that inserted the row.
StoredAt(row, by, k) ==
    [ id |-> k,
      project_id |-> row.project_id,
      agent_name |-> row.agent_name,
      to_agent |-> row.to_agent,
      intent |-> row.intent,
      status |-> row.status,
      reply_to |-> row.reply_to,
      created |-> 2 * k,
      by |-> by ]

\* table('messages').insert(row).execute()
Stored(row, by) == StoredAt(row, by, Len(messages) + 1)

Insert(row, by) == Append(messages, Stored(row, by))

\* All orderings of a finite set of row ids.
RECURSIVE Perms(_)
Perms(S) ==
    IF S = {} THEN { <<>> }
    ELSE UNION { { <<x>> \o p : p \in Perms(S \ {x}) } : x \in S }

\* The ids of a set of rows in the order of their `created` stamps.  The server
\* stamps rows as it inserts them, so that is the order of insertion.
RECURSIVE ByCreated(_)
ByCreated(S) ==
    IF S = {} THEN <<>>
    ELSE LET first == CHOOSE i \in S : \A j \in S : i <= j
         IN  <<first>> \o ByCreated(S \ {first})

\* select('*').filter('to_agent','eq',to).filter('created','gte',since)
\*            .order('created', desc=False)
QueryByRecipient(to, since) ==
    ByCreated({ i \in 1..Len(messages) :
                  messages[i].to_agent = to /\ messages[i].created >= since })

\* select('*').filter('agent_name','eq',from).filter('created','gte',since)
QueryBySender(from, since) ==
    Perms({ i \in 1..Len(messages) :
              messages[i].agent_name = from /\ messages[i].created >= since })

\* ------------------------------------------------------------------ coordinator
NoTask == [ id |-> NoId, text |-> <<>>, project_id |-> "none" ]

\* `src` is history only: the row a captured response was taken from.
NoResponse == [ status |-> "none", result |-> <<>>, details |-> "none", src |-> NoId ]

NoDelegation == [ worker_message_id |-> NoId, original_task_id |-> NoId ]

NoAnalysis ==
    [ complexity |-> "none", requires_worker |-> "none",
      estimated_minutes |-> "none", reasoning |-> "none" ]

NoResult ==
    [ task_id |-> NoId, status |-> "none", summary |-> <<>>,
      worker_contribution |-> NoResponse ]

\* CoordinatorMoonState.__init__
CoordinatorMoonState ==
    [ current_task |-> NoTask,
      worker_response |-> <<>>,
      task_status |-> "idle",
      processed_messages |-> {},
      latest_worker_response |-> NoResponse,
      pending_delegation |-> NoDelegation ]

\* The dict threaded through the coordinator's nodes; an absent key is its "no" value.
NoWf ==
    [ incoming_message |-> NoId,
      status |-> "none",
      task |-> NoTask,
      analysis |-> NoAnalysis,
      delegation_sent |-> "unset",
      delegation_id |-> NoId,
      error |-> "none",
      worker_response |-> NoResponse,
      final_result |-> NoResult,
      completion_sent |-> FALSE,
      completion_id |-> NoId ]

\* What the coordinator did with a message (history): how often it started the
\* workflow for it, what the Advisor call gave, the stage an exception left the
\* workflow from, and whether a later query returned the message again after that.
NoLog == [ runs |-> 0, advisor |-> "none", raised |-> "none", again |-> FALSE ]

LogOf(log, id) == IF id \in DOMAIN log THEN log[id] ELSE NoLog

\* send_test_message_to_self_custom: message_data
TaskRow(task_text) ==
    [ project_id |-> "test_project",
      agent_name |-> "cli-user",
      to_agent |-> agent_name,
      intent |-> task_text,
      status |-> "sent",
      reply_to |-> NoId ]

\* Python truthiness of the values requires_worker can carry.
Truthy(v) == v \in {"true", "Not given"}

\* What the Advisor call can give back: the call raises, the text is not JSON, the
\* text is JSON but no object, or an object whose requires_worker is true, false
\* or absent.
AdvisorReplies ==
    { [ kind |-> k, requires_worker |-> "absent" ] :
        k \in {"call_failed", "not_json", "not_object"} }
    \cup
    { [ kind |-> "object", requires_worker |-> v ] :
        v \in {"true", "false", "absent"} }

\* The analysis of both except branches of _analyze_task_node.
FallbackAnalysis ==
    [ complexity |-> "Not given", requires_worker |-> "false",
      estimated_minutes |-> "None", reasoning |-> "None given" ]

\* _analyze_task_node, from the Advisor call to the return.  A failed call enters
\* `except Exception`, whose print reads `response` before any assignment; text that
\* is not JSON enters `except json.JSONDecodeError`, whose print reads `analysis`
\* before any assignment: both handlers raise UnboundLocalError.  JSON that is no
\* object fails at .get (AttributeError) with `response` bound, so that handler
\* completes.
AnalyzeTask(reply) ==
    CASE reply.kind = "call_failed" -> [ raised |-> TRUE, analysis |-> NoAnalysis ]
      [] reply.kind = "not_json"    -> [ raised |-> TRUE, analysis |-> NoAnalysis ]
      [] reply.kind = "not_object"  -> [ raised |-> FALSE, analysis |-> FallbackAnalysis ]
      [] OTHER ->
           [ raised |-> FALSE,
             analysis |->
               [ complexity |-> "low",
                 requires_worker |->
                     IF reply.requires_worker = "absent" THEN "Not given"
                     ELSE reply.requires_worker,
                 estimated_minutes |-> "5",
                 reasoning |-> "given" ] ]

\* Variant: every task is delegated.
RequiresWorker_Always(analysis) == TRUE

\* _delegate_to_worker_node: `if analysis["requires_worker"]`
RequiresWorker(analysis) == Truthy(analysis.requires_worker)

\* Variant: the delegation does not name its task.
WorkRequestRow_Unlinked(task) ==
    [ project_id |-> task.project_id,
      agent_name |-> agent_name,
      to_agent |-> "worker",
      intent |-> <<WORK_REQUEST>> \o task.text,
      status |-> "sent",
      reply_to |-> NoId ]

\* _delegate_to_worker_node: message_data
WorkRequestRow(task) ==
    [ project_id |-> task.project_id,
      agent_name |-> agent_name,
      to_agent |-> "worker",
      intent |-> <<WORK_REQUEST>> \o task.text,
      status |-> "sent",
      reply_to |-> task.id ]

\* _wait_for_response_node
HandledDirectly ==
    [ status |-> "Handled directly", result |-> <<>>, details |-> "none", src |-> NoId ]

Placeholder ==
    [ status |-> "Completed", result |-> <<"Task processed successfully">>,
      details |-> "Worker completed the analysis", src |-> NoId ]

\* Variant: no placeholder stands in for a response that was not captured.
WaitForResponse_NoPlaceholder(wf, latest) ==
    IF wf.delegation_sent # "True" THEN HandledDirectly ELSE latest

WaitForResponse(wf, latest) ==
    IF wf.delegation_sent # "True" THEN HandledDirectly
    ELSE IF latest # NoResponse THEN latest
    ELSE Placeholder

\* _consolidate_results_node: final_result
FinalResult(task, worker_response) ==
    [ task_id |-> task.id,
      status |-> "completed",
      summary |-> <<"Task completed with worker assistance">>,
      worker_contribution |-> worker_response ]

\* _complete_task_node: completion_data
TaskCompleteRow_ToSelf(task, final_result) ==
    [ project_id |-> task.project_id,
      agent_name |-> agent_name,
      to_agent |-> agent_name,
      intent |-> <<TASK_COMPLETE>> \o final_result.summary,
      status |-> "done",
      reply_to |-> task.id ]

\* _complete_task_node: completion_data
TaskCompleteRow(task, final_result) ==
    [ project_id |-> task.project_id,
      agent_name |-> agent_name,
      to_agent |-> "broadcast",
      intent |-> <<TASK_COMPLETE>> \o final_result.summary,
      status |-> "done",
      reply_to |-> task.id ]

\* Variant: the id is not remembered.
MarkProcessed_Forgets(processed, id) == processed

\* process_incoming_message: self.state.processed_messages.add(id)
MarkProcessed(processed, id) == processed \cup {id}

\* process_incoming_message: intent.startswith("WORK_COMPLETE:")
IsWorkerCompletion(intent) == StartsWith(intent, WORK_COMPLETE)

\* Variant: only completions of tasks are kept out of the workflow.
IsNewTask_RequestsToo(intent) == ~ StartsWith(intent, TASK_COMPLETE)

\* process_incoming_message: not intent.startswith(("WORK_REQUEST:", "TASK_COMPLETE:"))
IsNewTask(intent) ==
    ~ StartsWith(intent, WORK_REQUEST) /\ ~ StartsWith(intent, TASK_COMPLETE)

\* process_incoming_message: latest_worker_response
CapturedResponse(message) ==
    [ status |-> "Completed",
      result |-> Replace(message.intent, WORK_COMPLETE),
      details |-> "Worker completed successfully",
      src |-> message.id ]

\* _receive_task_node: current_task
ReceivedTask(message) ==
    [ id |-> message.id, text |-> message.intent, project_id |-> message.project_id ]

\* process_incoming_message(message) on the coordinator state `st`; when it starts
\* the workflow, _receive_task_node runs with it.  `wf` is the workflow state then,
\* NoWf otherwise.
ProcessIncomingMessage(message, st, log) ==
    LET id == message.id
        processed == MarkProcessed(st.processed_messages, id)
        task == ReceivedTask(message)
        seen == (id :> LogOf(log, id)) @@ log
    IN  IF id \in st.processed_messages
        THEN [ state |-> st, log |-> log, wf |-> NoWf ]
        ELSE IF IsWorkerCompletion(message.intent)
        THEN [ state |-> [ st EXCEPT !.processed_messages = processed,
                                     !.latest_worker_response = CapturedResponse(message) ],
               log |-> seen, wf |-> NoWf ]
        ELSE IF IsNewTask(message.intent)
        THEN [ state |-> [ st EXCEPT !.processed_messages = processed,
                                     !.current_task = task ],
               log |-> [ seen EXCEPT ![id].runs = @ + 1 ],
               wf |-> [ NoWf EXCEPT !.status = "task_received", !.task = task ] ]
        ELSE [ state |-> [ st EXCEPT !.processed_messages = processed ],
               log |-> seen, wf |-> NoWf ]

\* poll_for_messages: the condition of the first loop, and of the second
LoopTakes(loop, message, st) ==
    IF loop = "tasks"
    THEN message.id \notin st.processed_messages
    ELSE /\ message.id \notin st.processed_messages
         /\ StartsWith(message.intent, WORK_COMPLETE)

\* A loop meets `message` and does not take it (history).
MetAgain(log, message, processed) ==
    IF message.id \in processed /\ LogOf(log, message.id).raised # "none"
    THEN [ log EXCEPT ![message.id].again = TRUE ]
    ELSE log

\* Variant: the loop does not await the workflow it starts, so the iterations go on to
\* the end of the batch and a later message's workflow takes the place of an earlier.
RECURSIVE Dispatch_NoAwait(_, _, _, _)
Dispatch_NoAwait(loop, batch, st, log) ==
    IF batch = <<>>
    THEN [ state |-> st, log |-> log, wf |-> NoWf, batch |-> <<>> ]
    ELSE LET message == messages[Head(batch)]
             out == IF LoopTakes(loop, message, st)
                    THEN ProcessIncomingMessage(message, st, log)
                    ELSE [ state |-> st, log |-> log, wf |-> NoWf ]
             rest == Dispatch_NoAwait(loop, Tail(batch), out.state, out.log)
         IN  IF rest.wf # NoWf \/ out.wf = NoWf
             THEN rest
             ELSE [ state |-> rest.state, log |-> rest.log, wf |-> out.wf,
                    batch |-> <<>> ]

\* poll_for_messages: the iterations of `for message in ...` over `batch`, up to the
\* first message that starts the workflow (the loop awaits it) or the end of the batch.
RECURSIVE Dispatch(_, _, _, _)
Dispatch(loop, batch, st, log) ==
    IF batch = <<>>
    THEN [ state |-> st, log |-> log, wf |-> NoWf, batch |-> <<>> ]
    ELSE LET message == messages[Head(batch)]
             out == IF LoopTakes(loop, message, st)
                    THEN ProcessIncomingMessage(message, st, log)
                    ELSE [ state |-> st,
                           log |-> MetAgain(log, message, st.processed_messages),
                           wf |-> NoWf ]
         IN  IF out.wf # NoWf
             THEN [ state |-> out.state, log |-> out.log, wf |-> out.wf,
                    batch |-> Tail(batch) ]
             ELSE Dispatch(loop, Tail(batch), out.state, out.log)

\* The poll loop goes on with `batch` of `loop`.  When a message starts the workflow,
\* _analyze_task_node follows _receive_task_node: its Advisor call touches nothing the
\* other processes see, so it belongs to the same step.  Either it raises, and
\* `except Exception` of poll_for_messages starts the loop over after the backoff with
\* last_checked as it was, or the workflow stands before _delegate_to_worker_node.
\* Past the end of the loop comes the second query after the first loop, and
\* `last_checked = datetime.now()`, the sleep and the first query after the second;
\* `now` is the clock read then.
ContinueLoop(loop, batch, st, log, now) ==
    LET out == Dispatch(loop, batch, st, log)
        id == out.wf.task.id
    IN  IF out.wf # NoWf
        THEN \E reply \in AdvisorReplies :
               LET analyzed == AnalyzeTask(reply)
               IN  /\ c_state' = out.state
                   /\ UNCHANGED c_last
                   /\ IF analyzed.raised
                      THEN /\ c_pc' = "query_tasks"
                           /\ c_batch' = <<>>
                           /\ c_wf' = NoWf
                           /\ c_back' = "tasks"
                           /\ c_log' = [ out.log EXCEPT ![id].advisor = reply.kind,
                                                        ![id].raised = "analyze_task" ]
                      ELSE /\ c_pc' = "delegate_to_worker"
                           /\ c_batch' = out.batch
                           /\ c_wf' = [ out.wf EXCEPT !.analysis = analyzed.analysis ]
                           /\ c_back' = loop
                           /\ c_log' = [ out.log EXCEPT ![id].advisor = "answered" ]
        ELSE /\ c_state' = out.state
             /\ c_log' = out.log
             /\ c_wf' = NoWf
             /\ c_batch' = <<>>
             /\ c_back' = "tasks"
             /\ IF loop = "tasks"
                THEN c_pc' = "query_worker" /\ UNCHANGED c_last
                ELSE c_pc' = "query_tasks" /\ c_last' = now

\* Variant: the CLI task is created although the sign-in gave no session.
CoordinatorStart_CliAnyway ==
    /\ c_pc = "init"
    /\ \E session \in BOOLEAN :
         IF session
         THEN /\ c_user' = TRUE
              /\ c_pc' = "query_tasks"
              /\ c_last' = Now
              /\ cli_pc' = "reading"
         ELSE /\ c_pc' = "returned"
              /\ cli_pc' = "reading"
              /\ UNCHANGED << c_user, c_last >>
    /\ UNCHANGED << messages, c_batch, c_state, c_wf, c_back, c_log >>
    /\ UNCHANGED workerVars
    /\ UNCHANGED adapterVars

\* start(): authenticate(), then the poll task and the CLI task are created.
CoordinatorStart ==
    /\ c_pc = "init"
    /\ \E session \in BOOLEAN :
         IF session
         THEN /\ c_user' = TRUE
              /\ c_pc' = "query_tasks"
              /\ c_last' = Now
              /\ cli_pc' = "reading"
         ELSE /\ c_pc' = "returned"
              /\ UNCHANGED << c_user, c_last, cli_pc >>
    /\ UNCHANGED << messages, c_batch, c_state, c_wf, c_back, c_log >>
    /\ UNCHANGED workerVars
    /\ UNCHANGED adapterVars

\* poll_for_messages: the first query and its loop.  A failed query is caught by
\* `except Exception` and the loop starts over after the backoff.
PollTasks ==
    /\ c_pc = "query_tasks"
    /\ \/ /\ ContinueLoop("tasks", QueryByRecipient(agent_name, c_last),
                          c_state, c_log, Now)
       \/ /\ UNCHANGED << c_pc, c_last, c_batch, c_state, c_wf, c_back, c_log >>
    /\ UNCHANGED << messages, c_user >>
    /\ UNCHANGED cliVars
    /\ UNCHANGED workerVars
    /\ UNCHANGED adapterVars

\* poll_for_messages: the second query (rows sent by the worker, in no stated order)
\* and its loop.
PollWorkerResponses ==
    /\ c_pc = "query_worker"
    /\ \/ /\ \E result \in QueryBySender("worker", c_last) :
               ContinueLoop("responses", result, c_state, c_log, Now)
       \/ /\ c_pc' = "query_tasks"
          /\ UNCHANGED << c_last, c_batch, c_state, c_wf, c_back, c_log >>
    /\ UNCHANGED << messages, c_user >>
    /\ UNCHANGED cliVars
    /\ UNCHANGED workerVars
    /\ UNCHANGED adapterVars

\* Variant: the handler of the poll loop takes the watermark to the present.
PipelineRaises_Advances(stage) ==
    /\ c_pc' = "query_tasks"
    /\ c_batch' = <<>>
    /\ c_wf' = NoWf
    /\ c_back' = "tasks"
    /\ c_log' = [ c_log EXCEPT ![c_wf.task.id].raised = stage ]
    /\ c_last' = Now
    /\ UNCHANGED c_user

\* Variant: an exception that leaves the workflow ends the poll loop.
PipelineRaises_Stops(stage) ==
    /\ c_pc' = "stopped"
    /\ c_batch' = <<>>
    /\ c_wf' = NoWf
    /\ c_back' = "tasks"
    /\ c_log' = [ c_log EXCEPT ![c_wf.task.id].raised = stage ]
    /\ UNCHANGED << c_last, c_user >>

\* An exception leaves workflow.ainvoke: process_incoming_message does not catch it,
\* `except Exception` of poll_for_messages does, and the loop starts over after the
\* backoff with last_checked as it was.
PipelineRaises(stage) ==
    /\ c_pc' = "query_tasks"
    /\ c_batch' = <<>>
    /\ c_wf' = NoWf
    /\ c_back' = "tasks"
    /\ c_log' = [ c_log EXCEPT ![c_wf.task.id].raised = stage ]
    /\ UNCHANGED << c_last, c_user >>

\* _wait_for_response_node and _consolidate_results_node, which follow
\* _delegate_to_worker_node without a call to the outside.
WaitAndConsolidate(wf, latest) ==
    LET response == WaitForResponse(wf, latest)
    IN  [ wf EXCEPT !.worker_response = response,
                    !.final_result = FinalResult(wf.task, response) ]

\* _delegate_to_worker_node.  The insert can return data, return no data or raise;
\* after a successful insert the verification select can raise too, and the same
\* `except Exception` answers delegation_sent = False.
DelegateToWorkerNode ==
    /\ c_pc = "delegate_to_worker"
    /\ c_pc' = "complete_task"
    /\ LET task == c_wf.task
           new == Len(messages) + 1
           latest == c_state.latest_worker_response
       IN  IF RequiresWorker(c_wf.analysis)
           THEN \/ /\ messages' = Insert(WorkRequestRow(task), agent_name)
                   /\ c_state' = [ c_state EXCEPT !.pending_delegation =
                                     [ worker_message_id |-> new,
                                       original_task_id |-> task.id ] ]
                   /\ c_wf' = WaitAndConsolidate(
                                 [ c_wf EXCEPT !.delegation_sent = "True",
                                               !.delegation_id = new ], latest)
                \/ /\ messages' = Insert(WorkRequestRow(task), agent_name)
                   /\ c_wf' = WaitAndConsolidate(
                                 [ c_wf EXCEPT !.delegation_sent = "False",
                                               !.error = "exception" ], latest)
                   /\ UNCHANGED c_state
                \/ /\ \E error \in {"Insert failed", "exception"} :
                        c_wf' = WaitAndConsolidate(
                                   [ c_wf EXCEPT !.delegation_sent = "False",
                                                 !.error = error ], latest)
                   /\ UNCHANGED << messages, c_state >>
           ELSE /\ c_wf' = WaitAndConsolidate(
                              [ c_wf EXCEPT !.delegation_sent = "False" ], latest)
                /\ UNCHANGED << messages, c_state >>
    /\ UNCHANGED << c_last, c_batch, c_user, c_back, c_log >>
    /\ UNCHANGED cliVars
    /\ UNCHANGED workerVars
    /\ UNCHANGED adapterVars

\* Variant: a task whose completion could not be stored is forgotten, so that a later
\* cycle takes it again.
CompleteTaskNode_Retries ==
    /\ c_pc = "complete_task"
    /\ \/ /\ messages' = Insert(TaskCompleteRow(c_wf.task, c_wf.final_result), agent_name)
          /\ ContinueLoop(c_back, c_batch,
                          [ c_state EXCEPT !.current_task = NoTask, !.task_status = "idle" ],
                          c_log, Now + 2)
          /\ UNCHANGED c_user
       \/ /\ PipelineRaises("complete_task")
          /\ c_state' = [ c_state EXCEPT !.processed_messages = @ \ {c_wf.task.id} ]
          /\ UNCHANGED messages
    /\ UNCHANGED cliVars
    /\ UNCHANGED workerVars
    /\ UNCHANGED adapterVars

\* _complete_task_node.  The insert is not guarded: when it raises, or returns no data
\* (sent.data[0] then raises), the exception leaves the workflow.  On success the
\* workflow ends, process_incoming_message returns and the loop that called goes on.
CompleteTaskNode ==
    /\ c_pc = "complete_task"
    /\ \/ /\ messages' = Insert(TaskCompleteRow(c_wf.task, c_wf.final_result), agent_name)
          /\ ContinueLoop(c_back, c_batch,
                          [ c_state EXCEPT !.current_task = NoTask, !.task_status = "idle" ],
                          c_log, Now + 2)
          /\ UNCHANGED c_user
       \/ /\ PipelineRaises("complete_task")
          /\ UNCHANGED << messages, c_state >>
    /\ UNCHANGED cliVars
    /\ UNCHANGED workerVars
    /\ UNCHANGED adapterVars

\* ------------------------------------------------------------------ coordinator CLI
\* The poll task is cancelled and the coordinator process ends: what it held in
\* memory is gone.
PollCancelled ==
    /\ c_pc' = "cancelled"
    /\ c_last' = 0
    /\ c_batch' = <<>>
    /\ c_state' = CoordinatorMoonState
    /\ c_wf' = NoWf
    /\ c_back' = "tasks"
    /\ UNCHANGED << c_user, c_log >>

\* The poll task is suspended: in asyncio.sleep, or in workflow.ainvoke while a stage
\* runs.  The command reader's code runs on the same event loop, so it runs only
\* then: from the end of the first loop to `last_checked = datetime.now()` the poll
\* task does not await (the queries are synchronous calls).
PollSuspended == c_pc # "query_worker"

\* The rows sent from the CLI so far.
SentTasks == { i \in 1..Len(messages) : messages[i].by = "cli" }

\* handle_cli_input: `send`.  A failed insert is not caught: the exception ends the
\* CLI task, gather() re-raises it out of start(), and the event loop cancels the
\* poll task on its way out.
CliSend ==
    /\ cli_pc = "reading"
    /\ PollSuspended
    /\ Cardinality(SentTasks) < MaxTasks
    /\ \E task_text \in TaskTexts :
         \/ /\ messages' = Insert(TaskRow(task_text), "cli")
            /\ UNCHANGED cli_pc
            /\ UNCHANGED coordVars
         \/ /\ cli_pc' = "raised"
            /\ PollCancelled
            /\ UNCHANGED messages
    /\ UNCHANGED workerVars
    /\ UNCHANGED adapterVars

\* handle_cli_input: `status` and unknown commands only print.
CliStatus ==
    /\ cli_pc = "reading"
    /\ PollSuspended
    /\ UNCHANGED vars

\* handle_cli_input: `quit` returns (EOFError breaks out of the loop likewise).
\* Only the CLI task ends: gather() in start() goes on awaiting the poll task.
CliQuit ==
    /\ cli_pc = "reading"
    /\ PollSuspended
    /\ cli_pc' = "returned"
    /\ UNCHANGED messages
    /\ UNCHANGED coordVars
    /\ UNCHANGED workerVars
    /\ UNCHANGED adapterVars

\* start(): KeyboardInterrupt cancels the poll task and the CLI task.
Interrupt ==
    /\ c_pc \notin {"init", "returned", "cancelled"}
    /\ PollCancelled
    /\ cli_pc' = IF cli_pc = "reading" THEN "cancelled" ELSE cli_pc
    /\ UNCHANGED messages
    /\ UNCHANGED workerVars
    /\ UNCHANGED adapterVars

\* ------------------------------------------------------------------ worker
NoRequest == [ id |-> NoId, text |-> <<>>, project_id |-> "none" ]

NoAiResponse ==
    [ content |-> <<>>, model |-> "none", error |-> FALSE, analysis_type |-> "none" ]

NoRequestAnalysis == [ type |-> "none", prompt_template |-> "none" ]

NoFormatted ==
    [ summary |-> <<>>, detailed_analysis |-> <<>>, model_used |-> "none",
      request_id |-> NoId ]

\* WorkerState.__init__
WorkerState ==
    [ current_request |-> NoRequest,
      processed_messages |-> {},
      ai_response |-> NoAiResponse ]

\* The dict threaded through the worker's nodes.
NoWorkerWf ==
    [ work_request |-> NoId,
      status |-> "none",
      request |-> NoRequest,
      analysis |-> NoRequestAnalysis,
      ai_response |-> NoAiResponse,
      formatted_response |-> NoFormatted,
      summary_text |-> <<>>,
      result_sent |-> "unset",
      result_id |-> NoId,
      error |-> "none" ]

\* What a worker instance did with a message (history): how often it started the
\* workflow for it, and whether its insert of the result failed.
NoWorkerLog == [ runs |-> 0, send_failed |-> FALSE ]

\* _receive_request_node: current_request
ReceivedRequest(message) ==
    [ id |-> message.id,
      text |-> Replace(message.intent, WORK_REQUEST),
      project_id |-> message.project_id ]

\* _analyze_request_node: the keyword lists
SecurityKeywords == {"security", "vulnerability", "exploit"}
CodeKeywords == {"code", "review", "bug", "error"}
TestKeywords == {"test", "testing", "qa"}

\* The characters of the tokens that request texts and keywords are made of.
Spelling ==
    (WORK_REQUEST :> << "W", "O", "R", "K", "_", "R", "E", "Q", "U", "E", "S", "T", ":", " " >>)
    @@ (WORK_COMPLETE :> << "W", "O", "R", "K", "_", "C", "O", "M", "P", "L", "E", "T", "E", ":", " " >>)
    @@ (TASK_COMPLETE :> << "T", "A", "S", "K", "_", "C", "O", "M", "P", "L", "E", "T", "E", ":", " " >>)
    @@ ("refactor" :> << "r", "e", "f", "a", "c", "t", "o", "r" >>)
    @@ ("x" :> << "x" >>)
    @@ ("Check" :> << "C", "h", "e", "c", "k" >>)
    @@ ("for" :> << "f", "o", "r" >>)
    @@ ("SQL" :> << "S", "Q", "L" >>)
    @@ ("injection" :> << "i", "n", "j", "e", "c", "t", "i", "o", "n" >>)
    @@ ("vulnerability" :> << "v", "u", "l", "n", "e", "r", "a", "b", "i", "l", "i", "t", "y" >>)
    @@ ("There's" :> << "T", "h", "e", "r", "e", "'", "s" >>)
    @@ ("a" :> << "a" >>)
    @@ ("bug" :> << "b", "u", "g" >>)
    @@ ("in" :> << "i", "n" >>)
    @@ ("this" :> << "t", "h", "i", "s" >>)
    @@ ("function" :> << "f", "u", "n", "c", "t", "i", "o", "n" >>)
    @@ ("Need" :> << "N", "e", "e", "d" >>)
    @@ ("QA" :> << "Q", "A" >>)
    @@ ("test" :> << "t", "e", "s", "t" >>)
    @@ ("plan" :> << "p", "l", "a", "n" >>)
    @@ ("Explain" :> << "E", "x", "p", "l", "a", "i", "n" >>)
    @@ ("microservices" :> << "m", "i", "c", "r", "o", "s", "e", "r", "v", "i", "c", "e", "s" >>)
    @@ ("Security" :> << "S", "e", "c", "u", "r", "i", "t", "y" >>)
    @@ ("decode" :> << "d", "e", "c", "o", "d", "e" >>)
    @@ ("latest" :> << "l", "a", "t", "e", "s", "t" >>)
    @@ ("security" :> << "s", "e", "c", "u", "r", "i", "t", "y" >>)
    @@ ("exploit" :> << "e", "x", "p", "l", "o", "i", "t" >>)
    @@ ("code" :> << "c", "o", "d", "e" >>)
    @@ ("review" :> << "r", "e", "v", "i", "e", "w" >>)
    @@ ("error" :> << "e", "r", "r", "o", "r" >>)
    @@ ("testing" :> << "t", "e", "s", "t", "i", "n", "g" >>)
    @@ ("qa" :> << "q", "a" >>)
    @@ ("AI-powered " :> << "A", "I", "-", "p", "o", "w", "e", "r", "e", "d", " " >>)
    @@ (" completed" :> << " ", "c", "o", "m", "p", "l", "e", "t", "e", "d" >>)
    @@ (": " :> << ":", " " >>)
    @@ ("..." :> << ".", ".", "." >>)
    @@ ("security_review" :> << "s", "e", "c", "u", "r", "i", "t", "y", "_", "r", "e", "v", "i", "e", "w" >>)
    @@ ("code_review" :> << "c", "o", "d", "e", "_", "r", "e", "v", "i", "e", "w" >>)
    @@ ("test_analysis" :> << "t", "e", "s", "t", "_", "a", "n", "a", "l", "y", "s", "i", "s" >>)
    @@ ("general_analysis" :> << "g", "e", "n", "e", "r", "a", "l", "_", "a", "n", "a", "l", "y", "s", "i", "s" >>)

UpperCase ==
    << "A", "B", "C", "D", "E", "F", "G", "H", "I", "J", "K", "L", "M",
       "N", "O", "P", "Q", "R", "S", "T", "U", "V", "W", "X", "Y", "Z" >>
LowerCase ==
    << "a", "b", "c", "d", "e", "f", "g", "h", "i", "j", "k", "l", "m",
       "n", "o", "p", "q", "r", "s", "t", "u", "v", "w", "x", "y", "z" >>

\* str.lower(), on the characters of a token
Lower(chars) ==
    [ k \in 1..Len(chars) |->
        IF \E u \in 1..Len(UpperCase) : UpperCase[u] = chars[k]
        THEN LowerCase[CHOOSE u \in 1..Len(UpperCase) : UpperCase[u] = chars[k]]
        ELSE chars[k] ]

\* The characters of a text, token after token.
RECURSIVE Characters(_)
Characters(text) ==
    IF text = <<>> THEN <<>> ELSE Spelling[Head(text)] \o Characters(Tail(text))

\* The lower-cased characters of every token.
LowerSpelling == [ token \in DOMAIN Spelling |-> Lower(Spelling[token]) ]

\* `keyword in s` for the characters of a keyword and of a token
Contains(chars, keyword) ==
    \E start \in 1..(Len(chars) - Len(keyword) + 1) :
        SubSeq(chars, start, start + Len(keyword) - 1) = keyword

\* any(keyword in request_text for keyword in keywords), request_text the lower-cased
\* text: a keyword has no blank in it, so it is found in the text exactly when it is
\* found inside one of the tokens.
Mentions(text, keywords) ==
    \E i \in 1..Len(text) : \E keyword \in keywords :
        Contains(LowerSpelling[text[i]], Spelling[keyword])

\* Variant: the code keywords are tried before the security keywords.
AnalyzeRequest_CodeFirst(text) ==
    IF Mentions(text, CodeKeywords)
    THEN [ type |-> "code_review", prompt_template |-> "code_analysis" ]
    ELSE IF Mentions(text, SecurityKeywords)
    THEN [ type |-> "security_review", prompt_template |-> "security_analysis" ]
    ELSE IF Mentions(text, TestKeywords)
    THEN [ type |-> "test_analysis", prompt_template |-> "test_strategy" ]
    ELSE [ type |-> "general_analysis", prompt_template |-> "general_task" ]

\* _analyze_request_node
AnalyzeRequest(text) ==
    IF Mentions(text, SecurityKeywords)
    THEN [ type |-> "security_review", prompt_template |-> "security_analysis" ]
    ELSE IF Mentions(text, CodeKeywords)
    THEN [ type |-> "code_review", prompt_template |-> "code_analysis" ]
    ELSE IF Mentions(text, TestKeywords)
    THEN [ type |-> "test_analysis", prompt_template |-> "test_strategy" ]
    ELSE [ type |-> "general_analysis", prompt_template |-> "general_task" ]

\* The texts the model can answer with.
AiContents == { <<"analysis">>, <<"see", WORK_COMPLETE>> }

FallbackTextLimit == 50
SummaryContentLimit == 100

\* _call_ai_model_node: fallback_response
FallbackResponse(text) ==
    <<"Analysis completed for '">> \o Slice(text, FallbackTextLimit)
        \o <<"...'. Unable to connect to AI model, providing basic analysis.">>

\* Variant: the whole content goes into the summary.
SummaryText_Whole(summary, content) ==
    summary \o <<": ">> \o content \o <<"...">>

\* _format_response_node: summary_text
SummaryText(summary, content) ==
    summary \o <<": ">> \o Slice(content, SummaryContentLimit) \o <<"...">>

\* _send_result_node: completion_data
WorkCompleteRow(request, summary_text) ==
    [ project_id |-> request.project_id,
      agent_name |-> worker_name,
      to_agent |-> "coordinator",
      intent |-> <<WORK_COMPLETE>> \o summary_text,
      status |-> "done",
      reply_to |-> request.id ]

\* start(): authenticate(), then the poll task is created.
WorkerStart(w) ==
    /\ w_pc[w] = "init"
    /\ \E session \in BOOLEAN :
         IF session
         THEN /\ w_user' = [ w_user EXCEPT ![w] = TRUE ]
              /\ w_pc' = [ w_pc EXCEPT ![w] = "query_requests" ]
              /\ w_last' = [ w_last EXCEPT ![w] = Now ]
         ELSE /\ w_pc' = [ w_pc EXCEPT ![w] = "returned" ]
              /\ UNCHANGED << w_user, w_last >>
    /\ UNCHANGED << messages, w_batch, w_state, w_wf, w_log >>
    /\ UNCHANGED coordVars
    /\ UNCHANGED cliVars
    /\ UNCHANGED adapterVars

\* Variant: a request that any instance has dispatched is passed over by the others,
\* as if the instances shared one processed set.
ProcessWorkRequest_Shared(message, st, log) ==
    LET id == message.id
        request == ReceivedRequest(message)
        seen == (id :> (IF id \in DOMAIN log THEN log[id] ELSE NoWorkerLog)) @@ log
    IN  IF \E v \in WorkerIds : id \in w_state[v].processed_messages
        THEN [ state |-> st, log |-> log, wf |-> NoWorkerWf ]
        ELSE [ state |-> [ st EXCEPT !.processed_messages = MarkProcessed(@, id),
                                     !.current_request = request ],
               log |-> [ seen EXCEPT ![id].runs = @ + 1 ],
               wf |-> [ NoWorkerWf EXCEPT !.status = "request_received",
                                          !.request = request,
                                          !.analysis = AnalyzeRequest(request.text) ] ]

\* process_work_request(message) on the worker state `st`, with
\* _receive_request_node and _analyze_request_node.
ProcessWorkRequest(message, st, log) ==
    LET id == message.id
        request == ReceivedRequest(message)
        seen == (id :> (IF id \in DOMAIN log THEN log[id] ELSE NoWorkerLog)) @@ log
    IN  IF id \in st.processed_messages
        THEN [ state |-> st, log |-> log, wf |-> NoWorkerWf ]
        ELSE [ state |-> [ st EXCEPT !.processed_messages = MarkProcessed(@, id),
                                     !.current_request = request ],
               log |-> [ seen EXCEPT ![id].runs = @ + 1 ],
               wf |-> [ NoWorkerWf EXCEPT !.status = "request_received",
                                          !.request = request,
                                          !.analysis = AnalyzeRequest(request.text) ] ]

\* poll_for_work_requests: the iterations of `for message in worker_messages.data`
\* over `batch`, up to the first message that starts the workflow or the end.
RECURSIVE DispatchRequests(_, _, _)
DispatchRequests(batch, st, log) ==
    IF batch = <<>>
    THEN [ state |-> st, log |-> log, wf |-> NoWorkerWf, batch |-> <<>> ]
    ELSE LET message == messages[Head(batch)]
             out == IF /\ message.id \notin st.processed_messages
                       /\ StartsWith(message.intent, WORK_REQUEST)
                    THEN ProcessWorkRequest(message, st, log)
                    ELSE [ state |-> st, log |-> log, wf |-> NoWorkerWf ]
         IN  IF out.wf # NoWorkerWf
             THEN [ state |-> out.state, log |-> out.log, wf |-> out.wf,
                    batch |-> Tail(batch) ]
             ELSE DispatchRequests(Tail(batch), out.state, out.log)

\* _format_response_node
FormatResponse(wf) ==
    LET summary == <<"AI-powered ", wf.analysis.type, " completed">>
    IN  [ wf EXCEPT
            !.formatted_response =
                [ summary |-> summary,
                  detailed_analysis |-> wf.ai_response.content,
                  model_used |-> wf.ai_response.model,
                  request_id |-> wf.request.id ],
            !.summary_text = SummaryText(summary, wf.ai_response.content) ]

\* Variant: the fallback does not record the error.
CallAiModel_ErrorDropped(wf) ==
    { [ content |-> c, model |-> "claude-3-sonnet-20240229", error |-> FALSE,
        analysis_type |-> wf.analysis.type ] : c \in AiContents }
    \cup
    { [ content |-> FallbackResponse(wf.request.text), model |-> "fallback",
        error |-> FALSE, analysis_type |-> wf.analysis.type ] }

\* _call_ai_model_node: the call answers, or it raises and the fallback is used.
CallAiModel(wf) ==
    { [ content |-> c, model |-> "claude-3-sonnet-20240229", error |-> FALSE,
        analysis_type |-> wf.analysis.type ] : c \in AiContents }
    \cup
    { [ content |-> FallbackResponse(wf.request.text), model |-> "fallback",
        error |-> TRUE, analysis_type |-> wf.analysis.type ] }

\* The worker's poll loop goes on with `batch`.  When a message starts the workflow,
\* _call_ai_model_node and _format_response_node follow: the model call touches
\* nothing the other processes see, so it belongs to the same step, and the workflow
\* stands before _send_result_node.  Past the end of the loop come
\* `last_checked = datetime.now()`, the sleep and the next query; `now` is the clock
\* read then.
ContinueRequests(w, batch, st, log, now) ==
    LET out == DispatchRequests(batch, st, log)
    IN  /\ w_log' = [ w_log EXCEPT ![w] = out.log ]
        /\ w_batch' = [ w_batch EXCEPT ![w] = out.batch ]
        /\ IF out.wf # NoWorkerWf
           THEN /\ \E ai_response \in CallAiModel(out.wf) :
                     /\ w_state' = [ w_state EXCEPT ![w] =
                                       [ out.state EXCEPT !.ai_response = ai_response ] ]
                     /\ w_wf' = [ w_wf EXCEPT ![w] =
                                    FormatResponse([ out.wf EXCEPT
                                                       !.ai_response = ai_response ]) ]
                /\ w_pc' = [ w_pc EXCEPT ![w] = "send_result" ]
                /\ UNCHANGED w_last
           ELSE /\ w_state' = [ w_state EXCEPT ![w] = out.state ]
                /\ w_wf' = [ w_wf EXCEPT ![w] = NoWorkerWf ]
                /\ w_pc' = [ w_pc EXCEPT ![w] = "query_requests" ]
                /\ w_last' = [ w_last EXCEPT ![w] = now ]

\* poll_for_work_requests: the query and its loop; a failed query is caught and the
\* loop starts over after the backoff.
PollWorkRequests(w) ==
    /\ w_pc[w] = "query_requests"
    /\ \/ /\ ContinueRequests(w, QueryByRecipient("worker", w_last[w]),
                              w_state[w], w_log[w], Now)
       \/ /\ UNCHANGED << w_pc, w_last, w_batch, w_state, w_wf, w_log >>
    /\ UNCHANGED << messages, w_user >>
    /\ UNCHANGED coordVars
    /\ UNCHANGED cliVars
    /\ UNCHANGED adapterVars

\* Variant: the reset after a stored result takes the whole state back.
SendResultNode_ResetsAll(w) ==
    /\ w_pc[w] = "send_result"
    /\ LET wf == w_wf[w]
       IN  \/ /\ messages' = Insert(WorkCompleteRow(wf.request, wf.summary_text), w)
              /\ ContinueRequests(w, w_batch[w], WorkerState, w_log[w], Now + 2)
           \/ /\ ContinueRequests(w, w_batch[w], w_state[w],
                                  [ w_log[w] EXCEPT ![wf.request.id].send_failed = TRUE ],
                                  Now)
              /\ UNCHANGED messages
    /\ UNCHANGED w_user
    /\ UNCHANGED coordVars
    /\ UNCHANGED cliVars
    /\ UNCHANGED adapterVars

\* _send_result_node.  A failed insert is caught inside the node; the workflow ends
\* either way, process_work_request returns and the poll loop goes on.
SendResultNode(w) ==
    /\ w_pc[w] = "send_result"
    /\ LET wf == w_wf[w]
       IN  \/ /\ messages' = Insert(WorkCompleteRow(wf.request, wf.summary_text), w)
              /\ ContinueRequests(w, w_batch[w],
                                  [ w_state[w] EXCEPT !.current_request = NoRequest,
                                                      !.ai_response = NoAiResponse ],
                                  w_log[w], Now + 2)
           \/ /\ ContinueRequests(w, w_batch[w], w_state[w],
                                  [ w_log[w] EXCEPT ![wf.request.id].send_failed = TRUE ],
                                  Now)
              /\ UNCHANGED messages
    /\ UNCHANGED w_user
    /\ UNCHANGED coordVars
    /\ UNCHANGED cliVars
    /\ UNCHANGED adapterVars

\* ------------------------------------------------------------------ envelope
\* src/backend/envelope.py: SolarEnvelopeBuilder and SolarDatabaseAdapter, used by a
\* client of its own.  The strings of routing are sequences of tokens as the texts
\* are: the prefix "agent:" is a token of its own and so is a blank.
MaxSends == 2        \* rows inserted through the adapter

AGENT_PREFIX == "agent:"

\* Python's None in a field that holds a string otherwise, and in place of a record.
None == "None"
NoRecord == [ id |-> None ]

\* The names given to the builder, the texts, and the values uuid.uuid4() returns:
\* the k-th row of the table gets the k-th of them.
AgentNames == { <<"coordinator">>, <<"worker">>, <<"broadcast">> }
EnvelopeTexts == { <<"Test", "task">> }
Uuids == << "u1", "u2", "u3", "u4" >>

\* SolarEnvelopeBuilder.create_task; `now` is datetime.now().isoformat() and `id`
\* is str(uuid.uuid4()).
CreateTask(project_id, from_agent, to_agent, task_text, now, id) ==
    [ schema |-> "company.a2a.v1",
      type |-> "task.create",
      routing |-> [ project_id |-> project_id,
                    from |-> << AGENT_PREFIX, " " >> \o from_agent,
                    to |-> << AGENT_PREFIX >> \o to_agent,
                    reply_to |-> None ],
      payload |-> [ text |-> task_text ],
      status |-> "sent",
      timestamps |-> [ created |-> now, updated |-> now ],
      id |-> id ]

\* SolarEnvelopeBuilder.create_task_update
CreateTaskUpdate(project_id, from_agent, progress_text, status, reply_to, now, id) ==
    [ schema |-> "company.a2a.v1",
      type |-> "task.update",
      routing |-> [ project_id |-> project_id,
                    from |-> << AGENT_PREFIX >> \o from_agent,
                    to |-> << "broadcast" >>,
                    reply_to |-> reply_to ],
      payload |-> [ text |-> progress_text ],
      status |-> status,
      timestamps |-> [ created |-> now, updated |-> now ],
      id |-> id ]

\* Variant: the record keeps the payload only, not the envelope.
DbData_PayloadOnly(envelope, human_id) ==
    LET from_agent == Replace(envelope.routing.from, AGENT_PREFIX)
        to_agent == Replace(envelope.routing.to, AGENT_PREFIX)
    IN  [ id |-> envelope.id,
          project_id |-> envelope.routing.project_id,
          human_id |-> human_id,
          agent_name |-> from_agent,
          to_agent |-> IF to_agent # << "broadcast" >> THEN to_agent
                       ELSE << "broadcast" >>,
          intent |-> envelope.payload.text,
          status |-> envelope.status,
          content |-> envelope.payload,
          reply_to |-> envelope.routing.reply_to ]

\* send_envelope: db_data
DbData(envelope, human_id) ==
    LET from_agent == Replace(envelope.routing.from, AGENT_PREFIX)
        to_agent == Replace(envelope.routing.to, AGENT_PREFIX)
    IN  [ id |-> envelope.id,
          project_id |-> envelope.routing.project_id,
          human_id |-> human_id,
          agent_name |-> from_agent,
          to_agent |-> IF to_agent # << "broadcast" >> THEN to_agent
                       ELSE << "broadcast" >>,
          intent |-> envelope.payload.text,
          status |-> envelope.status,
          content |-> envelope,
          reply_to |-> envelope.routing.reply_to ]

\* The record the table returns for an inserted row: the server adds `created`.
InsertedRecord(db_data) ==
    [ id |-> db_data.id,
      project_id |-> db_data.project_id,
      human_id |-> db_data.human_id,
      agent_name |-> db_data.agent_name,
      to_agent |-> db_data.to_agent,
      intent |-> db_data.intent,
      status |-> db_data.status,
      content |-> db_data.content,
      reply_to |-> db_data.reply_to,
      created |-> 2 * (Len(messages) + 1) ]

\* What the client holds before it has built an envelope; `args` is history: the
\* builder called and the names given to it.
NoArgs == [ builder |-> "none", from_agent |-> <<>>, to_agent |-> <<>> ]
NoEnvelope == [ args |-> NoArgs, envelope |-> NoRecord ]

\* No call of send_envelope yet.
NoSend ==
    [ args |-> NoArgs, envelope |-> NoRecord, response |-> "none",
      outcome |-> "none", value |-> NoRecord ]

\* The client calls create_task.
BuildTask ==
    /\ a_envelope = NoEnvelope
    /\ Len(messages) < MaxSends
    /\ \E from_agent \in AgentNames, to_agent \in AgentNames, task_text \in EnvelopeTexts :
         a_envelope' =
            [ args |-> [ builder |-> "create_task", from_agent |-> from_agent,
                         to_agent |-> to_agent ],
              envelope |-> CreateTask("test_project", from_agent, to_agent, task_text,
                                      Now, Uuids[Len(messages) + 1]) ]
    /\ UNCHANGED << messages, a_sent >>
    /\ UNCHANGED << coordVars, cliVars, workerVars >>

\* The client calls create_task_update, with the status and reply_to of the
\* signature or its own.
BuildTaskUpdate ==
    /\ a_envelope = NoEnvelope
    /\ Len(messages) < MaxSends
    /\ \E from_agent \in AgentNames, progress_text \in EnvelopeTexts,
          status \in {"processing", "done"},
          reply_to \in {None} \cup { messages[i].id : i \in 1..Len(messages) } :
         a_envelope' =
            [ args |-> [ builder |-> "create_task_update", from_agent |-> from_agent,
                         to_agent |-> <<>> ],
              envelope |-> CreateTaskUpdate("test_project", from_agent, progress_text,
                                            status, reply_to, Now,
                                            Uuids[Len(messages) + 1]) ]
    /\ UNCHANGED << messages, a_sent >>
    /\ UNCHANGED << coordVars, cliVars, workerVars >>

\* send_envelope(envelope, human_id).  The insert reports the inserted row, reports
\* no data (`response.data` is empty, and None is returned) or raises.
SendEnvelope ==
    /\ a_envelope # NoEnvelope
    /\ LET envelope == a_envelope.envelope
           human_id == "human"
           record == InsertedRecord(DbData(envelope, human_id))
           call == [ args |-> a_envelope.args, envelope |-> envelope ]
       IN  \/ /\ messages' = Append(messages, record)
              /\ a_sent' = call @@ [ response |-> "data", outcome |-> "returned",
                                     value |-> record ]
           \/ /\ a_sent' = call @@ [ response |-> "no_data", outcome |-> "returned",
                                     value |-> NoRecord ]
              /\ UNCHANGED messages
           \/ /\ a_sent' = call @@ [ response |-> "error", outcome |-> "raised",
                                     value |-> NoRecord ]
              /\ UNCHANGED messages
    /\ a_envelope' = NoEnvelope
    /\ UNCHANGED << coordVars, cliVars, workerVars >>

\* ------------------------------------------------------------------ direct invocation
\* A caller invokes the compiled workflows itself, workflow.ainvoke(initial_state),
\* with an initial state of its choice: with a row of the table under the key the
\* first node reads, or without one.  The graph has one edge out of every node, so
\* after the first node the second runs whatever the first returned; a node's
\* return value is the state the next node gets.

\* CoordinatorMoon.workflow.ainvoke: _receive_task_node and _analyze_task_node.
\* Without a message _receive_task_node returns {"status": "no_task"}, and
\* _analyze_task_node raises KeyError on state["task"], before the Advisor is called.
InvokeCoordinatorWorkflow ==
    /\ c_pc = "invoke"
    /\ \E incoming \in {NoId} \cup { i \in 1..Len(messages) :
                                       messages[i].to_agent = agent_name } :
         IF incoming = NoId
         THEN /\ c_wf' = [ NoWf EXCEPT !.status = "no_task", !.error = "KeyError" ]
              /\ c_pc' = "raised"
              /\ UNCHANGED c_state
         ELSE \E reply \in AdvisorReplies :
                LET task == ReceivedTask(messages[incoming])
                    analyzed == AnalyzeTask(reply)
                    wf == [ NoWf EXCEPT !.status = "task_received", !.task = task ]
                IN  /\ c_state' = [ c_state EXCEPT !.current_task = task ]
                    /\ IF analyzed.raised
                       THEN /\ c_pc' = "raised"
                            /\ c_wf' = [ wf EXCEPT !.error = reply.kind ]
                       ELSE /\ c_pc' = "delegate_to_worker"
                            /\ c_wf' = [ wf EXCEPT !.analysis = analyzed.analysis ]
    /\ UNCHANGED << messages, c_last, c_batch, c_user, c_back, c_log >>
    /\ UNCHANGED << cliVars, workerVars, adapterVars >>

\* CoordinatorMoon.workflow.ainvoke: _complete_task_node, after which ainvoke
\* returns the state, or the exception of the insert leaves ainvoke.
CompleteInvokedTask ==
    /\ c_pc = "complete_task"
    /\ \/ /\ messages' = Insert(TaskCompleteRow(c_wf.task, c_wf.final_result), agent_name)
          /\ c_state' = [ c_state EXCEPT !.current_task = NoTask, !.task_status = "idle" ]
          /\ c_wf' = [ c_wf EXCEPT !.completion_sent = TRUE,
                                   !.completion_id = Len(messages) + 1 ]
          /\ c_pc' = "ended"
       \/ /\ c_wf' = [ c_wf EXCEPT !.error = "exception" ]
          /\ c_pc' = "raised"
          /\ UNCHANGED << messages, c_state >>
    /\ UNCHANGED << c_last, c_batch, c_user, c_back, c_log >>
    /\ UNCHANGED << cliVars, workerVars, adapterVars >>

\* EnhancedWorkerMoon.workflow.ainvoke: _receive_request_node, _analyze_request_node,
\* _call_ai_model_node and _format_response_node.  Without a message
\* _receive_request_node returns {"status": "no_request"}, and _analyze_request_node
\* raises KeyError on state["request"].
InvokeWorkerWorkflow(w) ==
    /\ w_pc[w] = "invoke"
    /\ \E work_request \in {NoId} \cup { i \in 1..Len(messages) :
                                           messages[i].to_agent = "worker" } :
         IF work_request = NoId
         THEN /\ w_wf' = [ w_wf EXCEPT ![w] =
                             [ NoWorkerWf EXCEPT !.status = "no_request",
                                                 !.error = "KeyError" ] ]
              /\ w_pc' = [ w_pc EXCEPT ![w] = "raised" ]
              /\ UNCHANGED w_state
         ELSE LET request == ReceivedRequest(messages[work_request])
                  wf == [ NoWorkerWf EXCEPT !.status = "request_received",
                                            !.request = request,
                                            !.analysis = AnalyzeRequest(request.text) ]
              IN  \E ai_response \in CallAiModel(wf) :
                     /\ w_state' = [ w_state EXCEPT ![w] =
                                       [ @ EXCEPT !.current_request = request,
                                                  !.ai_response = ai_response ] ]
                     /\ w_wf' = [ w_wf EXCEPT ![w] =
                                    FormatResponse([ wf EXCEPT
                                                       !.ai_response = ai_response ]) ]
                     /\ w_pc' = [ w_pc EXCEPT ![w] = "send_result" ]
    /\ UNCHANGED << messages, w_last, w_batch, w_user, w_log >>
    /\ UNCHANGED << coordVars, cliVars, adapterVars >>

\* EnhancedWorkerMoon.workflow.ainvoke: _format_response_node on its own.
FormatInvokedResponse(w) ==
    /\ w_pc[w] = "format_response"
    /\ w_wf' = [ w_wf EXCEPT ![w] = FormatResponse(w_wf[w]) ]
    /\ w_pc' = [ w_pc EXCEPT ![w] = "send_result" ]
    /\ UNCHANGED << messages, w_last, w_batch, w_state, w_user, w_log >>
    /\ UNCHANGED << coordVars, cliVars, adapterVars >>

\* EnhancedWorkerMoon.workflow.ainvoke: _send_result_node, after which ainvoke
\* returns the state; a failed insert is caught inside the node.
SendInvokedResult_Raises(w) ==
    /\ w_pc[w] = "send_result"
    /\ LET wf == w_wf[w]
       IN  \/ /\ messages' = Insert(WorkCompleteRow(wf.request, wf.summary_text), w)
              /\ w_state' = [ w_state EXCEPT ![w] =
                                [ @ EXCEPT !.current_request = NoRequest,
                                           !.ai_response = NoAiResponse ] ]
              /\ w_wf' = [ w_wf EXCEPT ![w] =
                             [ wf EXCEPT !.result_sent = "True",
                                         !.result_id = Len(messages) + 1 ] ]
              /\ w_pc' = [ w_pc EXCEPT ![w] = "ended" ]
           \/ /\ w_pc' = [ w_pc EXCEPT ![w] = "raised" ]
              /\ UNCHANGED << messages, w_state, w_wf >>
    /\ UNCHANGED << w_last, w_batch, w_user, w_log >>
    /\ UNCHANGED << coordVars, cliVars, adapterVars >>

\* The workflow's last node, _send_result_node, when the workflow is invoked directly.
SendInvokedResult(w) ==
    /\ w_pc[w] = "send_result"
    /\ LET wf == w_wf[w]
       IN  \/ /\ messages' = Insert(WorkCompleteRow(wf.request, wf.summary_text), w)
              /\ w_state' = [ w_state EXCEPT ![w] =
                                [ @ EXCEPT !.current_request = NoRequest,
                                           !.ai_response = NoAiResponse ] ]
              /\ w_wf' = [ w_wf EXCEPT ![w] =
                             [ wf EXCEPT !.result_sent = "True",
                                         !.result_id = Len(messages) + 1 ] ]
           \/ /\ w_wf' = [ w_wf EXCEPT ![w] =
                             [ wf EXCEPT !.result_sent = "False",
                                         !.error = "exception" ] ]
              /\ UNCHANGED << messages, w_state >>
    /\ w_pc' = [ w_pc EXCEPT ![w] = "ended" ]
    /\ UNCHANGED << w_last, w_batch, w_user, w_log >>
    /\ UNCHANGED << coordVars, cliVars, adapterVars >>

\* ------------------------------------------------------------------ specification
\* One coordinator and one worker instance are launched; the second worker
\* instance is never launched.
Init ==
    /\ messages = <<>>
    /\ c_pc = "init"
    /\ c_last = 0
    /\ c_batch = <<>>
    /\ c_state = CoordinatorMoonState
    /\ c_user = FALSE
    /\ c_wf = NoWf
    /\ c_back = "tasks"
    /\ cli_pc = "off"
    /\ w_pc = [ w \in WorkerIds |-> IF w = "w1" THEN "init" ELSE "absent" ]
    /\ w_last = [ w \in WorkerIds |-> 0 ]
    /\ w_batch = [ w \in WorkerIds |-> <<>> ]
    /\ w_state = [ w \in WorkerIds |-> WorkerState ]
    /\ w_user = [ w \in WorkerIds |-> FALSE ]
    /\ w_wf = [ w \in WorkerIds |-> NoWorkerWf ]
    /\ c_log = << >>
    /\ w_log = [ w \in WorkerIds |-> << >> ]
    /\ a_envelope = NoEnvelope
    /\ a_sent = NoSend

\* A second worker instance is launched beside the first, against the same store.
InitTwoWorkers ==
    /\ messages = <<>>
    /\ c_pc = "init"
    /\ c_last = 0
    /\ c_batch = <<>>
    /\ c_state = CoordinatorMoonState
    /\ c_user = FALSE
    /\ c_wf = NoWf
    /\ c_back = "tasks"
    /\ cli_pc = "off"
    /\ w_pc = [ w \in WorkerIds |-> "init" ]
    /\ w_last = [ w \in WorkerIds |-> 0 ]
    /\ w_batch = [ w \in WorkerIds |-> <<>> ]
    /\ w_state = [ w \in WorkerIds |-> WorkerState ]
    /\ w_user = [ w \in WorkerIds |-> FALSE ]
    /\ w_wf = [ w \in WorkerIds |-> NoWorkerWf ]
    /\ c_log = << >>
    /\ w_log = [ w \in WorkerIds |-> << >> ]
    /\ a_envelope = NoEnvelope
    /\ a_sent = NoSend

\* The request texts classified: the four sentences of the worked cases, and one or
\* two words out of a few that hold a keyword of one group, in lower or upper case or
\* inside a longer word, or none.
WorkedCases ==
    { << "Check", "for", "SQL", "injection", "vulnerability" >>,
      << "There's", "a", "bug", "in", "this", "function" >>,
      << "Need", "a", "QA", "test", "plan" >>,
      << "Explain", "microservices" >> }

ClassifyWords ==
    { "vulnerability", "Security", "bug", "decode", "QA", "latest", "Explain", "plan" }

RequestTexts ==
    WorkedCases
    \cup { << a >> : a \in ClassifyWords }
    \cup { << a, b >> : a \in ClassifyWords, b \in ClassifyWords }

\* A worker polls a table that holds one request: the coordinator has delegated a
\* task with one of the request texts and was shut down before completing it.
InitClassify ==
    \E text \in RequestTexts :
        /\ messages =
              << StoredAt(TaskRow(text), "cli", 1),
                 StoredAt(WorkRequestRow([ id |-> 1, text |-> text,
                                           project_id |-> "test_project" ]),
                          agent_name, 2) >>
        /\ c_pc = "cancelled"
        /\ c_last = 0
        /\ c_batch = <<>>
        /\ c_state = CoordinatorMoonState
        /\ c_user = TRUE
        /\ c_wf = NoWf
        /\ c_back = "tasks"
        /\ cli_pc = "cancelled"
        /\ w_pc = [ w \in WorkerIds |-> IF w = "w1" THEN "query_requests" ELSE "absent" ]
        /\ w_last = [ w \in WorkerIds |-> IF w = "w1" THEN 1 ELSE 0 ]
        /\ w_batch = [ w \in WorkerIds |-> <<>> ]
        /\ w_state = [ w \in WorkerIds |-> WorkerState ]
        /\ w_user = [ w \in WorkerIds |-> w = "w1" ]
        /\ w_wf = [ w \in WorkerIds |-> NoWorkerWf ]
        /\ c_log = (1 :> [ NoLog EXCEPT !.runs = 1, !.advisor = "answered" ])
        /\ w_log = [ w \in WorkerIds |-> << >> ]
        /\ a_envelope = NoEnvelope
        /\ a_sent = NoSend

ClassifyNext ==
    \/ PollWorkRequests("w1")
    \/ SendResultNode("w1")

ClassifySpec == InitClassify /\ [][ClassifyNext]_vars

\* Contents of every length up to MaxContentLen, a character a token.
MaxContentLen == 104

LongContents == { [ k \in 1..n |-> "x" ] : n \in 0..MaxContentLen }

\* A worker's workflow stands before _format_response_node: the request is one of
\* the worked cases and the model has answered with a content of some length.
InitSummary ==
    \E text \in WorkedCases : \E content \in LongContents :
        LET request == [ id |-> 2, text |-> text, project_id |-> "test_project" ]
            analysis == AnalyzeRequest(text)
            ai_response == [ content |-> content, model |-> "claude-3-sonnet-20240229",
                             error |-> FALSE, analysis_type |-> analysis.type ]
        IN  /\ messages =
                  << StoredAt(TaskRow(text), "cli", 1),
                     StoredAt(WorkRequestRow([ id |-> 1, text |-> text,
                                               project_id |-> "test_project" ]),
                              agent_name, 2) >>
            /\ c_pc = "cancelled"
            /\ c_last = 0
            /\ c_batch = <<>>
            /\ c_state = CoordinatorMoonState
            /\ c_user = TRUE
            /\ c_wf = NoWf
            /\ c_back = "tasks"
            /\ cli_pc = "cancelled"
            /\ w_pc = [ w \in WorkerIds |->
                          IF w = "w1" THEN "format_response" ELSE "absent" ]
            /\ w_last = [ w \in WorkerIds |-> 0 ]
            /\ w_batch = [ w \in WorkerIds |-> <<>> ]
            /\ w_state = [ w \in WorkerIds |->
                             IF w = "w1"
                             THEN [ WorkerState EXCEPT !.current_request = request,
                                                       !.ai_response = ai_response ]
                             ELSE WorkerState ]
            /\ w_user = [ w \in WorkerIds |-> w = "w1" ]
            /\ w_wf = [ w \in WorkerIds |->
                          IF w = "w1"
                          THEN [ NoWorkerWf EXCEPT !.status = "request_received",
                                                   !.request = request,
                                                   !.analysis = analysis,
                                                   !.ai_response = ai_response ]
                          ELSE NoWorkerWf ]
            /\ c_log = (1 :> [ NoLog EXCEPT !.runs = 1, !.advisor = "answered" ])
            /\ w_log = [ w \in WorkerIds |-> << >> ]
            /\ a_envelope = NoEnvelope
            /\ a_sent = NoSend

SummaryNext ==
    \/ FormatInvokedResponse("w1")
    \/ SendInvokedResult("w1")

SummarySpec == InitSummary /\ [][SummaryNext]_vars

\* Both agents are signed in and their workflows are invoked directly, once each;
\* the table holds one task.
InitInvoke ==
    \E task_text \in TaskTexts :
        /\ messages = << StoredAt(TaskRow(task_text), "cli", 1) >>
        /\ c_pc = "invoke"
        /\ c_last = 0
        /\ c_batch = <<>>
        /\ c_state = CoordinatorMoonState
        /\ c_user = TRUE
        /\ c_wf = NoWf
        /\ c_back = "tasks"
        /\ cli_pc = "off"
        /\ w_pc = [ w \in WorkerIds |-> IF w = "w1" THEN "invoke" ELSE "absent" ]
        /\ w_last = [ w \in WorkerIds |-> 0 ]
        /\ w_batch = [ w \in WorkerIds |-> <<>> ]
        /\ w_state = [ w \in WorkerIds |-> WorkerState ]
        /\ w_user = [ w \in WorkerIds |-> w = "w1" ]
        /\ w_wf = [ w \in WorkerIds |-> NoWorkerWf ]
        /\ c_log = << >>
        /\ w_log = [ w \in WorkerIds |-> << >> ]
        /\ a_envelope = NoEnvelope
        /\ a_sent = NoSend

InvokeNext ==
    \/ InvokeCoordinatorWorkflow
    \/ DelegateToWorkerNode
    \/ CompleteInvokedTask
    \/ InvokeWorkerWorkflow("w1")
    \/ SendInvokedResult("w1")

InvokeSpec == InitInvoke /\ [][InvokeNext]_vars

\* A client of the adapter alone: no agent is launched.
InitAdapter ==
    /\ messages = <<>>
    /\ c_pc = "init"
    /\ c_last = 0
    /\ c_batch = <<>>
    /\ c_state = CoordinatorMoonState
    /\ c_user = FALSE
    /\ c_wf = NoWf
    /\ c_back = "tasks"
    /\ cli_pc = "off"
    /\ w_pc = [ w \in WorkerIds |-> "absent" ]
    /\ w_last = [ w \in WorkerIds |-> 0 ]
    /\ w_batch = [ w \in WorkerIds |-> <<>> ]
    /\ w_state = [ w \in WorkerIds |-> WorkerState ]
    /\ w_user = [ w \in WorkerIds |-> FALSE ]
    /\ w_wf = [ w \in WorkerIds |-> NoWorkerWf ]
    /\ c_log = << >>
    /\ w_log = [ w \in WorkerIds |-> << >> ]
    /\ a_envelope = NoEnvelope
    /\ a_sent = NoSend

AdapterNext ==
    \/ BuildTask
    \/ BuildTaskUpdate
    \/ SendEnvelope

AdapterSpec == InitAdapter /\ [][AdapterNext]_vars

CoordinatorStep ==
    \/ CoordinatorStart
    \/ PollTasks
    \/ PollWorkerResponses
    \/ DelegateToWorkerNode
    \/ CompleteTaskNode

WorkerStep(w) ==
    \/ WorkerStart(w)
    \/ PollWorkRequests(w)
    \/ SendResultNode(w)

Next ==
    \/ CoordinatorStep
    \/ \E w \in WorkerIds : WorkerStep(w)
    \/ CliSend
    \/ CliStatus
    \/ CliQuit
    \/ Interrupt

Spec == Init /\ [][Next]_vars

\* The processes of the system with two worker instances, for an operator who sends
\* one task.
TwoWorkersNext ==
    \/ CoordinatorStep
    \/ \E w \in WorkerIds : WorkerStep(w)
    \/ SentTasks = {} /\ CliSend
    \/ CliQuit
    \/ Interrupt

TwoWorkersSpec == InitTwoWorkers /\ [][TwoWorkersNext]_vars

\* The event loop resumes a poll task whose sleep is over, so a process that can take
\* a step takes one.  Nothing is assumed of the person at the CLI, nor of which
\* outcome a call to the store or to the model has.
FairSpec ==
    /\ Spec
    /\ WF_vars(CoordinatorStep)
    /\ \A w \in WorkerIds : WF_vars(WorkerStep(w))

\* ------------------------------------------------------------------ properties
\* C1: within one instance, coordinator or worker, the workflow is started at most
\* once for every message id, however often queries return the row.
C1_StartedAtMostOnce ==
    /\ \A id \in DOMAIN c_log : c_log[id].runs <= 1
    /\ \A w \in WorkerIds : \A id \in DOMAIN w_log[w] : w_log[w][id].runs <= 1

\* A query of a later cycle returned a message the coordinator had started the
\* workflow for, and the workflow was not started again.
C1_Witness ==
    \E id \in DOMAIN c_log :
        /\ c_log[id].again
        /\ c_log[id].runs = 1
        /\ id \in c_state.processed_messages

\* The rows of `table` addressed to the worker that answer message `id`.
WorkerRowsFor(table, id) ==
    { i \in 1..Len(table) : table[i].to_agent = "worker" /\ table[i].reply_to = id }

\* The step of _delegate_to_worker_node.
DelegateStep == c_pc = "delegate_to_worker" /\ c_pc' = "complete_task"

\* C2 (as the code has it): in a run on task T whose analysis has a truthy
\* requires_worker (true, or "Not given" when the reply lacks the key),
\* delegate_to_worker stores at most one row to the worker with reply_to = T.id:
\* exactly one when delegation_sent is true, none when the insert failed, and then
\* delegation_sent is false.  With requires_worker false it stores nothing and
\* delegation_sent is false.  No other step stores a row for the worker.
C2_DelegationRouting ==
    [][ /\ DelegateStep =>
              LET id == c_wf.task.id
                  rows == WorkerRowsFor(messages', id)
              IN  /\ WorkerRowsFor(messages, id) = {}
                  /\ IF Truthy(c_wf.analysis.requires_worker)
                     THEN /\ Cardinality(rows) <= 1
                          /\ c_wf'.delegation_sent = "True" => Cardinality(rows) = 1
                          /\ rows = {} => c_wf'.delegation_sent = "False"
                     ELSE /\ rows = {}
                          /\ c_wf'.delegation_sent = "False"
        /\ \A i \in (Len(messages) + 1)..Len(messages') :
              messages'[i].to_agent = "worker" =>
                  /\ DelegateStep
                  /\ Truthy(c_wf.analysis.requires_worker)
                  /\ messages'[i].reply_to = c_wf.task.id
      ]_vars

\* The analysis asked for the worker, the insert of the delegation failed: no row for
\* the worker answers the task, and delegation_sent is false.
C2_Witness ==
    /\ c_pc = "complete_task"
    /\ c_wf.analysis.requires_worker = "true"
    /\ c_wf.delegation_sent = "False"
    /\ WorkerRowsFor(messages, c_wf.task.id) = {}

\* C2 as stated: requires_worker = true means exactly one row to the worker with
\* reply_to = T.id is stored after delegate_to_worker.
C2_ExactlyOneRow ==
    [][ (DelegateStep /\ c_wf.analysis.requires_worker = "true") =>
            Cardinality(WorkerRowsFor(messages', c_wf.task.id)) = 1 ]_vars

\* C3: the reply_to of every delegation is the id of an earlier task row the
\* coordinator started its workflow for and whose text it carries; the reply_to of
\* every completion of a worker is the id of an earlier delegation that this worker
\* instance started its workflow for: two hops lead from a completion to its task.
C3_ReplyChain ==
    \A i \in 1..Len(messages) :
        LET row == messages[i]
        IN  /\ (row.agent_name = agent_name /\ StartsWith(row.intent, WORK_REQUEST)) =>
                  /\ row.reply_to \in 1..(i - 1)
                  /\ messages[row.reply_to].to_agent = agent_name
                  /\ LogOf(c_log, row.reply_to).runs >= 1
                  /\ row.intent = <<WORK_REQUEST>> \o messages[row.reply_to].intent
            /\ (row.agent_name = worker_name /\ StartsWith(row.intent, WORK_COMPLETE)) =>
                  /\ row.reply_to \in 1..(i - 1)
                  /\ messages[row.reply_to].agent_name = agent_name
                  /\ messages[row.reply_to].to_agent = "worker"
                  /\ StartsWith(messages[row.reply_to].intent, WORK_REQUEST)
                  /\ row.reply_to \in DOMAIN w_log[row.by]
                  /\ w_log[row.by][row.reply_to].runs >= 1
                  /\ messages[row.reply_to].reply_to \in 1..(row.reply_to - 1)

\* A completion is stored, and its chain leads to a task sent from the CLI.
C3_Witness ==
    \E i \in 1..Len(messages) :
        /\ messages[i].agent_name = worker_name
        /\ StartsWith(messages[i].intent, WORK_COMPLETE)
        /\ messages[i].reply_to # NoId
        /\ messages[messages[i].reply_to].reply_to # NoId
        /\ messages[messages[messages[i].reply_to].reply_to].by = "cli"

\* C4 as stated: what wait_for_response surfaces as the worker response is exactly
\* the result text of the completion row it was taken from, the intent after its
\* prefix.
C4_SurfacesExactText ==
    (c_pc = "complete_task" /\ c_wf.worker_response.src # NoId) =>
        c_wf.worker_response.result = Tail(messages[c_wf.worker_response.src].intent)

\* C5 as stated: when the Advisor call fails for a task, analyze_task answers with
\* the fallback analysis and no exception leaves the workflow.
C5_CallFailureFallsBack ==
    \A id \in DOMAIN c_log :
        c_log[id].advisor = "call_failed" => c_log[id].raised # "analyze_task"

\* C6 as stated: when the Advisor's reply is not well-formed JSON, analyze_task does
\* not raise.
C6_MalformedReplyFallsBack ==
    \A id \in DOMAIN c_log :
        c_log[id].advisor = "not_json" => c_log[id].raised # "analyze_task"

\* An intent that carries one of the three convention prefixes.
Prefixed(intent) ==
    \/ StartsWith(intent, WORK_REQUEST)
    \/ StartsWith(intent, TASK_COMPLETE)
    \/ StartsWith(intent, WORK_COMPLETE)

\* The number of workflow runs the coordinator started for the messages in S.
RECURSIVE CoordinatorRuns(_)
CoordinatorRuns(S) ==
    IF S = {} THEN 0
    ELSE LET id == CHOOSE x \in S : TRUE
         IN  c_log[id].runs + CoordinatorRuns(S \ {id})

\* C7: the coordinator starts its workflow only for rows sent from outside whose
\* intent carries none of the three prefixes, so never for a delegation or a
\* completion, and it starts no more runs than there are rows sent from outside.
C7_RoutingGuard ==
    /\ \A id \in DOMAIN c_log :
          c_log[id].runs >= 1 =>
              /\ ~ Prefixed(messages[id].intent)
              /\ messages[id].by = "cli"
    /\ CoordinatorRuns(DOMAIN c_log) <= Cardinality(SentTasks)

\* The coordinator has dispatched a row sent from outside whose intent carries a
\* prefix, and a completion of the worker, and started no workflow for either.
C7_Witness ==
    \E i, j \in c_state.processed_messages :
        /\ messages[i].by = "cli"
        /\ Prefixed(messages[i].intent)
        /\ c_log[i].runs = 0
        /\ messages[j].agent_name = worker_name
        /\ StartsWith(messages[j].intent, WORK_COMPLETE)
        /\ c_log[j].runs = 0

\* The rows by the coordinator that complete task `id` in `table`.
CompletionsOf(table, id) ==
    { i \in 1..Len(table) :
        /\ table[i].agent_name = agent_name
        /\ StartsWith(table[i].intent, TASK_COMPLETE)
        /\ table[i].reply_to = id }

C9_QuitStopsPolling ==
    (cli_pc = "returned") ~> (c_pc \in {"cancelled", "returned"})

\* The completions worker instance `w` stored for message `id`.
ResultsOf(w, id) ==
    { i \in 1..Len(messages) : messages[i].by = w /\ messages[i].reply_to = id }

CoordinatorLoop == {"query_tasks", "query_worker", "delegate_to_worker", "complete_task"}
WorkerLoop == {"query_requests", "send_result"}

\* A step in which an exception left the coordinator's workflow for message `id`.
RaisedIn(id) ==
    /\ id \in DOMAIN c_log'
    /\ c_log'[id].raised # "none"
    /\ LogOf(c_log, id).raised = "none"

\* The ids in a sequence of ids.
Range(batch) == { batch[k] : k \in 1..Len(batch) }

\* The rows inside the window of the coordinator's first query.
TaskWindow ==
    { i \in 1..Len(messages) :
        messages[i].to_agent = agent_name /\ messages[i].created >= c_last }

\* The requests inside the window of the query of worker `w`.
RequestWindow(w) ==
    { i \in 1..Len(messages) :
        /\ messages[i].to_agent = "worker"
        /\ messages[i].created >= w_last[w]
        /\ StartsWith(messages[i].intent, WORK_REQUEST) }

StartedIn(id) ==
    /\ id \in DOMAIN c_log'
    /\ c_log'[id].runs > LogOf(c_log, id).runs

\* A step in which worker `w` starts the workflow for message `id`.
WorkerStartedIn(w, id) ==
    /\ id \in DOMAIN w_log'[w]
    /\ w_log'[w][id].runs > (IF id \in DOMAIN w_log[w] THEN w_log[w][id].runs ELSE 0)

\* The workflow of the coordinator stands between two of its stages.
CoordinatorRunning == c_pc \in {"delegate_to_worker", "complete_task"}

\* A step in which the last stage of the coordinator's workflow runs: complete_task
\* stores the completion of the task, or raises.
CoordinatorRunEnds ==
    /\ c_pc = "complete_task"
    /\ \/ /\ Len(messages') = Len(messages) + 1
          /\ messages'[Len(messages')].by = agent_name
          /\ messages'[Len(messages')].reply_to = c_wf.task.id
       \/ RaisedIn(c_wf.task.id)

\* A step in which the last stage of the workflow of worker `w` runs: send_result
\* stores the result of the request, or fails to.
WorkerRunEnds(w) ==
    /\ w_pc[w] = "send_result"
    /\ \/ /\ Len(messages') = Len(messages) + 1
          /\ messages'[Len(messages')].by = w
          /\ messages'[Len(messages')].reply_to = w_wf[w].request.id
       \/ w_log'[w][w_wf[w].request.id].send_failed

\* A step of handle_cli_input that has an effect: a row is sent, or the reader ends.
CliActs ==
    \/ cli_pc = "reading" /\ cli_pc' # cli_pc
    \/ /\ Len(messages') = Len(messages) + 1
       /\ messages'[Len(messages')].by = "cli"

\* C12: within one process the runs of the workflow are not interleaved.  While a run
\* stands between two stages, a step of that process is the next stage of the same
\* run (or the cancellation); a workflow is started for another message only in the
\* step in which the last stage of the run has stored its row or failed; a step starts
\* at most one workflow; and a step of the CLI command reader changes nothing of a
\* run (unless its failure ends the process).
C12_RunsNotInterleaved ==
    [][ /\ \A id \in DOMAIN c_log' :
              StartedIn(id) =>
                  /\ CoordinatorRunning => CoordinatorRunEnds
                  /\ c_wf'.task.id = id \/ RaisedIn(id)
                  /\ \A other \in DOMAIN c_log' : StartedIn(other) => other = id
        /\ (c_pc = "delegate_to_worker" /\ c_pc' # c_pc) =>
              \/ c_pc' = "cancelled"
              \/ c_pc' = "complete_task" /\ c_wf'.task = c_wf.task
        /\ (CoordinatorRunning /\ c_wf'.task # c_wf.task) =>
              (CoordinatorRunEnds \/ c_pc' = "cancelled")
        /\ CliActs => ((c_wf' = c_wf /\ c_pc' = c_pc) \/ c_pc' = "cancelled")
        /\ \A w \in WorkerIds :
              /\ \A id \in DOMAIN w_log'[w] :
                    WorkerStartedIn(w, id) =>
                        /\ w_pc[w] = "send_result" => WorkerRunEnds(w)
                        /\ w_wf'[w].request.id = id
                        /\ \A other \in DOMAIN w_log'[w] :
                              WorkerStartedIn(w, other) => other = id
              /\ (w_pc[w] = "send_result" /\ w_wf'[w] # w_wf[w]) => WorkerRunEnds(w)
      ]_vars

\* The workflow of one task stands before its last stage while a second task, not yet
\* dispatched, waits in the batch the loop is iterating, and the CLI is reading.
C12_Witness ==
    /\ c_pc = "complete_task"
    /\ cli_pc = "reading"
    /\ \E k \in 1..Len(c_batch) :
          /\ c_batch[k] \notin c_state.processed_messages
          /\ IsNewTask(messages[c_batch[k]].intent)


\* A step in which the query of worker `w` succeeds and its loop runs.
WorkerPolls(w) ==
    /\ w_pc[w] = "query_requests"
    /\ << w_pc[w], w_state[w], w_last[w] >>' # << w_pc[w], w_state[w], w_last[w] >>

\* C13: a worker instance decides from its own processed set alone.  A request that
\* another instance has dispatched already is dispatched by this instance too when
\* its query returns it (or is held in the batch it is iterating), and an instance
\* starts the workflow only for an id that its own set does not hold.
C13_DedupPerInstance ==
    [][ \A w \in WorkerIds :
          /\ WorkerPolls(w) =>
                \A id \in RequestWindow(w) :
                    (\E v \in WorkerIds \ {w} : id \in w_state[v].processed_messages) =>
                        id \in w_state'[w].processed_messages \cup Range(w_batch'[w])
          /\ \A id \in DOMAIN w_log'[w] :
                WorkerStartedIn(w, id) => id \notin w_state[w].processed_messages
      ]_vars

\* Both instances have stored a WORK_COMPLETE row for the same request.
C13_Witness ==
    \E i \in 1..Len(messages) : \E j \in 1..Len(messages) :
        /\ messages[i].by = "w1"
        /\ messages[j].by = "w2"
        /\ StartsWith(messages[i].intent, WORK_COMPLETE)
        /\ StartsWith(messages[j].intent, WORK_COMPLETE)
        /\ messages[i].reply_to = messages[j].reply_to
        /\ StartsWith(messages[messages[i].reply_to].intent, WORK_REQUEST)


\* The rows of `table` that process `by` has inserted.
InsertedBy(table, by) == { i \in 1..Len(table) : table[i].by = by }

\* C14: an agent whose sign-in gave no session has returned from start() and stays
\* so: it holds no user, has read no clock for a watermark, has dispatched nothing
\* (its state is the initial one and its history is empty) and no row of the table is
\* its own; for the coordinator the CLI was not launched and has sent no row.
C14_NoSessionNoStart ==
    [][ /\ c_pc = "returned" => c_pc' = "returned"
        /\ c_pc' = "returned" =>
              /\ ~c_user'
              /\ c_last' = 0
              /\ c_state' = CoordinatorMoonState
              /\ c_wf' = NoWf
              /\ c_log' = << >>
              /\ cli_pc' = "off"
              /\ InsertedBy(messages', agent_name) = {}
              /\ InsertedBy(messages', "cli") = {}
        /\ \A w \in WorkerIds :
              /\ w_pc[w] = "returned" => w_pc'[w] = "returned"
              /\ w_pc'[w] = "returned" =>
                    /\ ~w_user'[w]
                    /\ w_last'[w] = 0
                    /\ w_state'[w] = WorkerState
                    /\ w_wf'[w] = NoWorkerWf
                    /\ w_log'[w] = << >>
                    /\ InsertedBy(messages', w) = {}
      ]_vars

\* The worker's sign-in gave no session, and a WORK_REQUEST addressed to it is in the
\* table while the coordinator polls.
C14_Witness ==
    /\ w_pc["w1"] = "returned"
    /\ c_pc \in CoordinatorLoop
    /\ \E i \in 1..Len(messages) :
          /\ messages[i].to_agent = "worker"
          /\ StartsWith(messages[i].intent, WORK_REQUEST)


\* routing.to names every agent: the word "broadcast", with the prefix or without.
DenotesBroadcast(to) == to \in { << "broadcast" >>, << AGENT_PREFIX, "broadcast" >> }

\* C15: when the insert reports the row, the record returned has the envelope as its
\* content and the envelope's id as its id, and its to_agent is "broadcast" exactly
\* when routing.to of the envelope denotes broadcast; the record is the row added to
\* the table, and every row of the table is such a projection of its content.
C15_AdapterRoundTrip ==
    /\ a_sent.response = "data" =>
          /\ a_sent.value.content = a_sent.envelope
          /\ a_sent.value.id = a_sent.envelope.id
          /\ a_sent.value.to_agent = << "broadcast" >>
                <=> DenotesBroadcast(a_sent.envelope.routing.to)
          /\ a_sent.value = messages[Len(messages)]
    /\ \A i \in 1..Len(messages) :
          /\ messages[i].content.id = messages[i].id
          /\ messages[i].to_agent = << "broadcast" >>
                <=> DenotesBroadcast(messages[i].content.routing.to)

\* An envelope of create_task addressed to "broadcast" was sent and recorded, after
\* an envelope addressed to one agent.
C15_Witness ==
    /\ a_sent.response = "data"
    /\ a_sent.args.builder = "create_task"
    /\ a_sent.envelope.routing.to = << AGENT_PREFIX, "broadcast" >>
    /\ a_sent.value.to_agent = << "broadcast" >>
    /\ \E i \in 1..Len(messages) : messages[i].to_agent = << "worker" >>

\* C16 as stated: when the insert reports no data, send_envelope signals an error
\* and gives no normal return value.
C16_NoDataSignalsError ==
    a_sent.response = "no_data" => a_sent.outcome = "raised"

\* C17 as stated: the record's agent_name is the `from` name given to the builder,
\* and for create_task its to_agent is the `to` name.
C17_PrefixesStripped ==
    a_sent.response = "data" =>
        /\ a_sent.value.agent_name = a_sent.args.from_agent
        /\ a_sent.args.builder = "create_task" =>
              a_sent.value.to_agent = a_sent.args.to_agent


\* The worker completions the coordinator captures in a step.
CapturedIn ==
    { i \in c_state'.processed_messages \ c_state.processed_messages :
        IsWorkerCompletion(messages[i].intent) }

\* C18 as stated: the rows of a batch are dispatched in the order of their creation,
\* those of the coordinator's second query too, so that the worker result it holds
\* after the loop over that batch is the one created last of those it captured.
C18_CapturedLastIsNewest ==
    [][ (c_pc = "query_worker" /\ CapturedIn # {}) =>
            \A i \in CapturedIn : i <= c_state'.latest_worker_response.src
      ]_vars


\* The workflow of worker `w` stands before send_result with the fallback in place
\* of the model's answer.
FellBack(w) == w_pc[w] = "send_result" /\ w_wf[w].ai_response.model = "fallback"

\* C19: a failed model call does not leave call_ai_model.  The response then is the
\* templated text on the request's text, with model "fallback" and the error
\* recorded; format_response has run on it; and the next step of the instance is
\* send_result, which stores a WORK_COMPLETE row that answers the request and carries
\* the fallback text, unless the insert itself fails.
C19_FallbackStillAnswers ==
    [][ \A w \in WorkerIds :
          FellBack(w) =>
              LET wf == w_wf[w]
                  row == messages'[Len(messages')]
              IN  /\ wf.ai_response.error
                  /\ wf.ai_response.content = FallbackResponse(wf.request.text)
                  /\ wf.formatted_response.detailed_analysis = wf.ai_response.content
                  /\ wf.formatted_response.model_used = "fallback"
                  /\ wf.summary_text =
                        SummaryText(wf.formatted_response.summary, wf.ai_response.content)
                  /\ w_state[w].ai_response = wf.ai_response
                  /\ << w_pc[w], w_wf[w], w_log[w], w_state[w] >>'
                         # << w_pc[w], w_wf[w], w_log[w], w_state[w] >> =>
                        \/ /\ Len(messages') = Len(messages) + 1
                           /\ row.by = w
                           /\ row.reply_to = wf.request.id
                           /\ row.intent = << WORK_COMPLETE >> \o wf.summary_text
                           /\ row.to_agent = "coordinator"
                        \/ /\ messages' = messages
                           /\ w_log'[w][wf.request.id].send_failed
      ]_vars

\* A WORK_COMPLETE row that answers a request with the fallback text is in the table.
C19_Witness ==
    \E i \in 1..Len(messages) :
        /\ messages[i].by = "w1"
        /\ StartsWith(messages[i].intent, WORK_COMPLETE)
        /\ StartsWith(messages[messages[i].reply_to].intent, WORK_REQUEST)
        /\ \E k \in 1..Len(messages[i].intent) :
              messages[i].intent[k] = FallbackResponse(<<>>)[2]


\* C20: the category of a request is decided by the first keyword group, in the order
\* security, code, test, of which a keyword occurs in the lower-cased text, and is
\* general_task when none does; it is always one of the four; and the four worked
\* cases get the categories stated.
C20_OrderedFirstMatch ==
    \A w \in WorkerIds :
        w_pc[w] = "send_result" =>
            LET text == w_wf[w].request.text
                category == w_wf[w].analysis.prompt_template
                security == Mentions(text, SecurityKeywords)
                code == Mentions(text, CodeKeywords)
                test == Mentions(text, TestKeywords)
            IN  /\ category \in { "security_analysis", "code_analysis",
                                  "test_strategy", "general_task" }
                /\ security => category = "security_analysis"
                /\ (~security /\ code) => category = "code_analysis"
                /\ (~security /\ ~code /\ test) => category = "test_strategy"
                /\ (~security /\ ~code /\ ~test) => category = "general_task"
                /\ text = << "Check", "for", "SQL", "injection", "vulnerability" >>
                      => category = "security_analysis"
                /\ text = << "There's", "a", "bug", "in", "this", "function" >>
                      => category = "code_analysis"
                /\ text = << "Need", "a", "QA", "test", "plan" >>
                      => category = "test_strategy"
                /\ text = << "Explain", "microservices" >>
                      => category = "general_task"

\* A request whose text holds a keyword of all three groups, one of them in upper
\* case and one inside a longer word, was classified as security_analysis.
C20_Witness ==
    /\ w_pc["w1"] = "send_result"
    /\ w_wf["w1"].request.text = << "decode", "Security" >>
    /\ Mentions(w_wf["w1"].request.text, CodeKeywords)
    /\ Mentions(w_wf["w1"].request.text, SecurityKeywords)
    /\ w_wf["w1"].analysis.prompt_template = "security_analysis"


\* C21 as stated: a run that finds no incoming message ends with status "no_task" or
\* "no_request" and without an exception.
C21_NoMessageEndsQuietly ==
    /\ c_wf.status = "no_task" => c_pc = "ended"
    /\ \A w \in WorkerIds : w_wf[w].status = "no_request" => w_pc[w] = "ended"


\* A step in which _complete_task_node runs.
CompleteStep ==
    /\ c_pc = "complete_task"
    /\ c_pc' # "cancelled"
    /\ << c_pc, c_wf, c_log >>' # << c_pc, c_wf, c_log >>

\* The step adds one row to the table, the completion of the task of the run.
StoresCompletion ==
    /\ Len(messages') = Len(messages) + 1
    /\ SubSeq(messages', 1, Len(messages)) = messages
    /\ LET row == messages'[Len(messages')]
       IN  /\ row.by = agent_name
           /\ row.to_agent = "broadcast"
           /\ row.status = "done"
           /\ StartsWith(row.intent, TASK_COMPLETE)
           /\ row.reply_to = c_wf.task.id

\* C22 (as the code has it): a run in complete_task whose insert succeeds stores
\* exactly one row, addressed to "broadcast", with status "done", an intent that
\* starts with "TASK_COMPLETE: " and reply_to the id of the task; then task_status is
\* idle and current_task is cleared (or is already the next task of the batch, which
\* the loop dispatches at once).  When the insert fails the run stores no row and
\* current_task is left as it was.  No task id ever has two TASK_COMPLETE rows.
C22_CompletionStored ==
    [][ /\ CompleteStep =>
              \/ /\ StoresCompletion
                 /\ c_state'.task_status = "idle"
                 /\ \/ c_state'.current_task = NoTask
                    \/ /\ c_state'.current_task.id # c_wf.task.id
                       /\ StartedIn(c_state'.current_task.id)
              \/ /\ messages' = messages
                 /\ RaisedIn(c_wf.task.id)
                 /\ c_state'.current_task = c_state.current_task
        /\ \A id \in 1..Len(messages') :
              Cardinality(CompletionsOf(messages', id)) <= 1
      ]_vars

\* Two tasks have run through complete_task: each has its one TASK_COMPLETE row and
\* the coordinator holds no task.
C22_Witness ==
    /\ c_state.current_task = NoTask
    /\ c_state.task_status = "idle"
    /\ \E i \in DOMAIN c_log : \E j \in DOMAIN c_log :
          /\ i # j
          /\ Cardinality(CompletionsOf(messages, i)) = 1
          /\ Cardinality(CompletionsOf(messages, j)) = 1

\* C22 as stated: every run that reaches complete_task stores its row.
C22_EveryRunStores ==
    [][ CompleteStep => StoresCompletion ]_vars


\* A step in which _send_result_node of worker w runs in a workflow invoked directly.
SendResultStep(w) ==
    /\ w_pc[w] = "send_result"
    /\ w_pc'[w] # "send_result"

\* C23: _send_result_node with a successful insert adds the one WORK_COMPLETE row,
\* returns result_sent True and clears current_request and ai_response; with a failed
\* insert it adds no row, returns result_sent False with the error, leaves
\* current_request and ai_response as they were, and the run ends without an exception.
C23_SendResultEffect ==
    [][ \A w \in WorkerIds : SendResultStep(w) =>
          /\ w_pc'[w] = "ended"
          /\ \/ /\ Len(messages') = Len(messages) + 1
                /\ messages'[Len(messages')].by = w
                /\ messages'[Len(messages')].reply_to = w_wf[w].request.id
                /\ w_wf'[w].result_sent = "True"
                /\ w_state'[w].current_request = NoRequest
                /\ w_state'[w].ai_response = NoAiResponse
             \/ /\ messages' = messages
                /\ w_wf'[w].result_sent = "False"
                /\ w_wf'[w].error # NoWorkerWf.error
                /\ w_state'[w].current_request = w_state[w].current_request
                /\ w_state'[w].ai_response = w_state[w].ai_response
                /\ w_state'[w].current_request # NoRequest
      ]_vars

\* A run has ended after its insert failed: nothing of the worker is in the table and
\* the request is still held.
C23_Witness ==
    \E w \in WorkerIds :
       /\ w_pc[w] = "ended"
       /\ w_wf[w].result_sent = "False"
       /\ w_state[w].current_request # NoRequest
       /\ w_state[w].ai_response # NoAiResponse
       /\ InsertedBy(messages, w) = {}


\* The worker's workflow is past _format_response_node.
Formatted(w) == w_pc[w] \in {"send_result", "ended"}

\* The summary of the rows worker w has stored: what follows "WORK_COMPLETE: " in
\* the intent.
SummariesOf(w) ==
    { Replace(messages[i].intent, WORK_COMPLETE) : i \in InsertedBy(messages, w) }

\* C24 (as the code has it): the summary is "AI-powered <type> completed", ": ", the
\* first SummaryContentLimit characters of the model's output and "...": the part
\* taken from the model's output has at most 100 characters, the whole summary has
\* 5 characters more than its heading and that part together, whatever the length of
\* the output, and it is what follows "WORK_COMPLETE: " in the intent.
C24_ContentTruncated ==
    \A w \in WorkerIds : Formatted(w) =>
       LET wf == w_wf[w]
           heading == Len(Characters(wf.formatted_response.summary))
           output == Len(Characters(wf.ai_response.content))
           taken == IF output <= SummaryContentLimit THEN output
                    ELSE SummaryContentLimit
       IN  /\ Len(Characters(wf.summary_text)) = heading + taken + 5
           /\ \A s \in SummariesOf(w) : s = wf.summary_text

\* A model output of more than 100 characters has been formatted and the row stored.
C24_Witness ==
    /\ Formatted("w1")
    /\ Len(Characters(w_wf["w1"].ai_response.content)) > SummaryContentLimit
    /\ SummariesOf("w1") # {}

\* C24 as stated: the summary has at most 100 characters.
C24_SummaryAtMost100 ==
    \A w \in WorkerIds : Formatted(w) =>
       Len(Characters(w_wf[w].summary_text)) <= 100


\* The ids for which the coordinator, or worker w, has started its workflow (history).
CoordinatorStarted == { id \in DOMAIN c_log : c_log[id].runs >= 1 }
WorkerStarted(w) == { id \in DOMAIN w_log[w] : w_log[w][id].runs >= 1 }

\* The coordinator process is alive: its memory ends with the process.
CoordinatorAlive == c_pc # "cancelled"

\* C25 (as the code has it): while an instance lives no step takes an id out of its
\* processed_messages.  An id is in a worker's set exactly when that worker started
\* its workflow for the message.  An id is in the coordinator's set exactly when the
\* message was handed to process_incoming_message: that is so for every message the
\* workflow was started for and for every captured completion of a worker, and also
\* for the rows whose intent starts with "WORK_REQUEST: " or "TASK_COMPLETE: ", which
\* are marked and then left alone.
C25_ProcessedOnlyGrows ==
    [][ /\ \A w \in WorkerIds :
              /\ w_state[w].processed_messages \subseteq w_state'[w].processed_messages
              /\ w_state'[w].processed_messages = WorkerStarted(w)'
        /\ CoordinatorAlive' =>
              /\ c_state.processed_messages \subseteq c_state'.processed_messages
              /\ c_state'.processed_messages = DOMAIN c_log'
              /\ CoordinatorStarted' \subseteq c_state'.processed_messages
              /\ \A id \in c_state'.processed_messages :
                    \/ id \in CoordinatorStarted'
                    \/ IsWorkerCompletion(messages'[id].intent)
                    \/ ~ IsNewTask(messages'[id].intent)
      ]_vars

\* A workflow of the coordinator has raised and the worker has stored a result and
\* reset its state: both ids are still in the sets.
C25_Witness ==
    /\ CoordinatorAlive
    /\ \E id \in c_state.processed_messages : c_log[id].raised # "none"
    /\ \E id \in w_state["w1"].processed_messages :
          /\ ResultsOf("w1", id) # {}
          /\ w_state["w1"].current_request = NoRequest

\* C25 as stated: an id is in the set exactly when the message was dispatched, to the
\* workflow or, a completion of a worker, to the capture.
C25_ProcessedIffDispatched ==
    CoordinatorAlive =>
       \A id \in c_state.processed_messages :
          \/ id \in CoordinatorStarted
          \/ IsWorkerCompletion(messages[id].intent)


\* The tasks sent from the CLI that the coordinator has not been handed and that its
\* queries return no more: they were created before the watermark.  The CLI starts
\* with the poller, so each of them was stored after the poller started.
BehindWatermark ==
    { i \in SentTasks :
        /\ IsNewTask(messages[i].intent)
        /\ i \notin c_state.processed_messages
        /\ messages[i].created < c_last }

\* C26 as stated, for the coordinator: no task stored after the poller started is
\* lost by the watermark.  The watermark never moves back and a query returns only
\* rows created at or after it, so a row that is behind the watermark without
\* having been handed over is never dispatched.
C26_NoRowBehindWatermark ==
    c_pc \in CoordinatorLoop => BehindWatermark = {}


\* The workflow of the coordinator has consolidated the response of a worker into
\* the result of a task it delegated.
Consolidated == c_pc = "complete_task" /\ c_wf.delegation_sent = "True"

\* C27 as stated: the response consolidated into a delegated task is the placeholder
\* or was captured from a WORK_COMPLETE row that replies to the WORK_REQUEST of that
\* task.
C27_ReplyCorrelated ==
    Consolidated =>
       LET response == c_wf.final_result.worker_contribution
       IN  \/ response = Placeholder
           \/ /\ response.src \in 1..Len(messages)
              /\ IsWorkerCompletion(messages[response.src].intent)
              /\ messages[response.src].reply_to = c_wf.delegation_id


\* A step in which the coordinator stores a row for the worker.
StoresWorkRequest ==
    /\ Len(messages') = Len(messages) + 1
    /\ messages'[Len(messages')].by = agent_name
    /\ messages'[Len(messages')].to_agent = "worker"

\* C28 as stated: the coordinator stores a WORK_REQUEST row only in a run whose
\* analysis carries requires_worker = true; a reply without the key is handled
\* directly.
C28_DelegatesOnlyOnTrue ==
    [][ StoresWorkRequest => c_wf.analysis.requires_worker = "true" ]_vars


\* A step in which a cycle of the coordinator's poll loop fails: an exception leaves a
\* workflow.  (A query that fails changes nothing but the position in the loop.)
CycleFails == \E id \in DOMAIN c_log' : RaisedIn(id)

\* The rows a later first or second query of the coordinator returns.
NextWindow ==
    { i \in 1..Len(messages) :
        /\ messages[i].to_agent = agent_name \/ messages[i].agent_name = worker_name
        /\ messages[i].created >= c_last }

\* C29: a watermark never moves back while its process lives.  A step in which a
\* cycle of the coordinator fails leaves last_checked as it was, and the rows of the
\* batch it was iterating that it has not handed over are inside the window of the
\* next queries.  last_checked changes only in the step that ends a cycle without a
\* failure, with the batch done; the same holds for a worker, whose failed query
\* changes nothing.
C29_WatermarkOnFailure ==
    [][ /\ CoordinatorAlive' => c_last' >= c_last
        /\ (CoordinatorAlive' /\ CycleFails) =>
              /\ c_last' = c_last
              /\ c_pc' = "query_tasks"
              /\ (Range(c_batch) \ c_state'.processed_messages) \subseteq NextWindow'
        /\ (CoordinatorAlive' /\ c_pc # "init" /\ c_last' # c_last) =>
              /\ c_pc \in {"query_worker", "complete_task"}
              /\ c_pc' = "query_tasks"
              /\ c_batch' = <<>>
              /\ ~ CycleFails
        /\ \A w \in WorkerIds :
              /\ w_last'[w] >= w_last[w]
              /\ (w_pc[w] # "init" /\ w_last'[w] # w_last[w]) =>
                    /\ w_pc[w] \in WorkerLoop
                    /\ w_pc'[w] = "query_requests"
                    /\ w_batch'[w] = <<>>
      ]_vars

\* A cycle has failed on the first task of its batch: the second task of the batch
\* was not handed over and is inside the window of the next query.
C29_Witness ==
    /\ c_pc = "query_tasks"
    /\ \E j \in TaskWindow : \E i \in TaskWindow :
          /\ j < i
          /\ j \in DOMAIN c_log
          /\ c_log[j].raised # "none"
          /\ i \notin c_state.processed_messages
          /\ messages[i].created >= c_last

====
